---- MODULE Spec2Model ----
(***************************************************************************)
(* A model of vkb::ResourceCache (framework/ResourceCache.{h,cpp}) with    *)
(* its recorder (framework/ResourceRecord.{h,cpp}), the descriptor set     *)
(* layout, descriptor pool and descriptor set it caches, and the threads   *)
(* that call it.                                                           *)
(*                                                                         *)
(* The descriptor set, the descriptor pool and the descriptor set layout   *)
(* are also driven on their own (SpecUnitSet, SpecUnitPool,                *)
(* SpecUnitLayout), and so are vkb::RenderFrame with its per-thread        *)
(* descriptor pool and descriptor set tables (SpecFrame) and a             *)
(* vkb::ResourceRecord (SpecUnitRecorder). The recursion of                *)
(* DescriptorPool::FindAvailablePool is followed activation by activation  *)
(* in SpecProbe, and in SpecProbeFair for its termination.                 *)
(*                                                                         *)
(* common/resource_caching.h (request_resource, hash_param) and            *)
(* resource_replay.h are used by the cache but are not part of the         *)
(* sources at hand: their definitions below follow the design document.    *)
(***************************************************************************)
EXTENDS Integers, Sequences, FiniteSets, TLC

\* ------------------------------------------------------------------ bounds

\* The cache constructs at most MaxBuilds objects in one behaviour.
MaxBuilds == 3

\* The pools and descriptor sets a run constructs once its layouts exist.
MaxSetBuilds == 3

\* The longest list of old views, and of new views, given to an update.
MaxViewList == 2

\* The pools and descriptor sets the threads construct next to an update.
MaxRaceBuilds == 2

\* Image views are 1..NumViews.
NumViews == 2

\* Worker threads of the concurrent specifications are 1..NumThreads.
NumThreads == 2

\* ------------------------------------------------------- program constants

\* DescriptorPool::MAX_SETS_PER_POOL, the default poolSize.
MAX_SETS_PER_POOL == 16

\* VK_NULL_HANDLE
VK_NULL_HANDLE == 0

\* ---------------------------------------------------------------- helpers

Min(S) == CHOOSE x \in S : \A y \in S : x <= y

\* Lexicographic order on <<binding, arrayElement>> pairs: the iteration
\* order of BindingMap = std::map<uint32_t, std::map<uint32_t, T>>.
PairLess(p, q) == p[1] < q[1] \/ (p[1] = q[1] /\ p[2] < q[2])

MinPair(S) == CHOOSE p \in S : \A q \in S : p = q \/ PairLess(p, q)

RECURSIVE SortPairs(_)
SortPairs(S) == IF S = {} THEN <<>>
                ELSE <<MinPair(S)>> \o SortPairs(S \ {MinPair(S)})


Range(f) == {f[x] : x \in DOMAIN f}

EmptyMap == <<>>

\* std::unordered_map::erase(key)
MapErase(m, k) == [x \in DOMAIN m \ {k} |-> m[x]]

\* std::unordered_map::emplace(key, value): no effect when the key exists.
MapEmplace(m, k, v) == IF k \in DOMAIN m THEN m ELSE m @@ (k :> v)

\* std::unordered_map::operator[] assignment
MapAssign(m, k, v) == [x \in DOMAIN m \cup {k} |-> IF x = k THEN v ELSE m[x]]


\* ------------------------------------------------------- content hashing
\* common/resource_caching.h is not among the sources. The design document
\* describes the hasher as a "deterministic, order-sensitive combination of a
\* value's structural fields into a fixed-width key"; the key is modelled as
\* the ordered list of the hashed fields, which is the hash with its
\* collisions left out.

\* hash_combine(seed, v): fold the digest v of one field into the seed.
hash_combine(seed, v) == seed \o <<Len(v)>> \o v

\* hash_param(seed, args...): fold every argument, in argument order.
RECURSIVE hash_param(_, _)
hash_param(seed, args) ==
  IF args = <<>> THEN seed
  ELSE hash_param(hash_combine(seed, Head(args)), Tail(args))

\* Enumerations enter a digest by their ordinal.
TypeCode(t) ==
  CASE t = "Input" -> 0 [] t = "InputAttachment" -> 1 [] t = "Output" -> 2
    [] t = "Image" -> 3 [] t = "ImageSampler" -> 4 [] t = "ImageStorage" -> 5
    [] t = "Sampler" -> 6 [] t = "BufferUniform" -> 7 [] t = "BufferStorage" -> 8
    [] t = "PushConstant" -> 9 [] t = "SpecializationConstant" -> 10
    [] OTHER -> 11

ModeCode(m) ==
  CASE m = "Static" -> 0 [] m = "Dynamic" -> 1 [] OTHER -> 2

\* Digest of a string: "main" is the only entry point requested.
HashString(str) == IF str = "main" THEN <<1>> ELSE <<0>>

\* Digest of a cached object passed by reference or pointer: its content id.
HashObject(o) == o.id

\* Digest of a std::vector of object pointers, element by element.
HashObjects(os) == hash_param(<<>>, [i \in 1..Len(os) |-> HashObject(os[i])])

HashResource(r) ==
  <<TypeCode(r.type), ModeCode(r.mode), r.binding, r.array_size, r.name, r.stages>>

HashResources(rs) == hash_param(<<>>, [i \in 1..Len(rs) |-> HashResource(rs[i])])

\* Digest of a BindingMap<VkDescriptorBufferInfo>, in map order.
RECURSIVE HashBufferSlots(_, _)
HashBufferSlots(m, slots) ==
  IF slots = <<>> THEN <<>>
  ELSE LET s == Head(slots) IN
       <<s[1], s[2], m[s].buffer, m[s].offset, m[s].range>>
         \o HashBufferSlots(m, Tail(slots))

HashBufferInfos(m) == HashBufferSlots(m, SortPairs(DOMAIN m))

\* Digest of a BindingMap<VkDescriptorImageInfo>, in map order.
RECURSIVE HashImageSlots(_, _)
HashImageSlots(m, slots) ==
  IF slots = <<>> THEN <<>>
  ELSE LET s == Head(slots) IN
       <<s[1], s[2], m[s].imageView>> \o HashImageSlots(m, Tail(slots))

HashImageInfos(m) == HashImageSlots(m, SortPairs(DOMAIN m))

\* ------------------------------------------------- descriptor set layout

VK_DESCRIPTOR_BINDING_UPDATE_AFTER_BIND_BIT_EXT == 1

HasBindingPoint(r) ==
  r.type \notin {"Input", "Output", "PushConstant", "SpecializationConstant"}

\* "none" stands for the std::runtime_error of the default case.
FindDescriptorType(resourceType, isDynamic) ==
  CASE resourceType = "InputAttachment" -> "INPUT_ATTACHMENT"
    [] resourceType = "Image" -> "SAMPLED_IMAGE"
    [] resourceType = "ImageSampler" -> "COMBINED_IMAGE_SAMPLER"
    [] resourceType = "ImageStorage" -> "STORAGE_IMAGE"
    [] resourceType = "Sampler" -> "SAMPLER"
    [] resourceType = "BufferUniform" ->
         IF isDynamic THEN "UNIFORM_BUFFER_DYNAMIC" ELSE "UNIFORM_BUFFER"
    [] resourceType = "BufferStorage" ->
         IF isDynamic THEN "STORAGE_BUFFER_DYNAMIC" ELSE "STORAGE_BUFFER"
    [] OTHER -> "none"

ValidateFlags(bindings, flags) ==
  IF flags = <<>> THEN TRUE ELSE Len(bindings) = Len(flags)

EmptyLayout(setIndex) ==
  [m_setIndex           |-> setIndex,
   m_bindings           |-> <<>>,
   m_bindingFlags       |-> <<>>,
   m_bindingsLookup     |-> EmptyMap,
   m_bindingFlagsLookup |-> EmptyMap,
   m_resourcesLookup    |-> EmptyMap]

\* A loop that makes a binding of every resource, with or without a
\* binding point.
RECURSIVE LayoutBindingsLoopSkippingNone(_, _)
LayoutBindingsLoopSkippingNone(l, rs) ==
  IF rs = <<>> THEN l
  ELSE LET resource == Head(rs)
           flag == IF resource.mode = "UpdateAfterBind"
                   THEN VK_DESCRIPTOR_BINDING_UPDATE_AFTER_BIND_BIT_EXT ELSE 0
           layout_binding ==
             [binding         |-> resource.binding,
              descriptorCount |-> resource.array_size,
              descriptorType  |-> IF HasBindingPoint(resource)
                                  THEN FindDescriptorType(resource.type, resource.mode = "Dynamic")
                                  ELSE "SAMPLER",
              stageFlags      |-> resource.stages]
       IN LayoutBindingsLoopSkippingNone(
            [l EXCEPT !.m_bindingFlags       = Append(@, flag),
                      !.m_bindings           = Append(@, layout_binding),
                      !.m_bindingsLookup     = MapEmplace(@, resource.binding, layout_binding),
                      !.m_bindingFlagsLookup = MapEmplace(@, resource.binding, flag),
                      !.m_resourcesLookup    = MapEmplace(@, resource.name, resource.binding)],
            Tail(rs))

\* The constructor's loop over resourceSet.
RECURSIVE LayoutBindingsLoop(_, _)
LayoutBindingsLoop(l, rs) ==
  IF rs = <<>> THEN l
  ELSE LET resource == Head(rs) IN
    IF ~HasBindingPoint(resource) THEN LayoutBindingsLoop(l, Tail(rs))
    ELSE
      LET flag == IF resource.mode = "UpdateAfterBind"
                  THEN VK_DESCRIPTOR_BINDING_UPDATE_AFTER_BIND_BIT_EXT ELSE 0
          layout_binding ==
            [binding         |-> resource.binding,
             descriptorCount |-> resource.array_size,
             descriptorType  |-> FindDescriptorType(resource.type, resource.mode = "Dynamic"),
             stageFlags      |-> resource.stages]
      IN LayoutBindingsLoop(
           [l EXCEPT !.m_bindingFlags       = Append(@, flag),
                     !.m_bindings           = Append(@, layout_binding),
                     !.m_bindingsLookup     = MapEmplace(@, resource.binding, layout_binding),
                     !.m_bindingFlagsLookup = MapEmplace(@, resource.binding, flag),
                     !.m_resourcesLookup    = MapEmplace(@, resource.name, resource.binding)],
           Tail(rs))

\* A constructor without the check of dynamic resources.
DescriptorSetLayoutCtorUnchecked(setIndex, resourceSet, driverOk) ==
  LET l == LayoutBindingsLoop(EmptyLayout(setIndex), resourceSet)
  IN IF \E i \in 1..Len(l.m_bindings) : l.m_bindings[i].descriptorType = "none"
     THEN [ok |-> FALSE, error |-> "NoConversion", layout |-> l]
     ELSE IF ~driverOk
     THEN [ok |-> FALSE, error |-> "VulkanException", layout |-> l]
     ELSE [ok |-> TRUE, error |-> "none", layout |-> l]

\* DescriptorSetLayout::DescriptorSetLayout. driverOk is the outcome of
\* vkCreateDescriptorSetLayout. The result is [ok, error, layout].
DescriptorSetLayoutCtor(setIndex, resourceSet, driverOk) ==
  LET l == LayoutBindingsLoop(EmptyLayout(setIndex), resourceSet)
      anyMode(m) == \E i \in 1..Len(resourceSet) : resourceSet[i].mode = m
  IN IF \E i \in 1..Len(l.m_bindings) : l.m_bindings[i].descriptorType = "none"
     THEN [ok |-> FALSE, error |-> "NoConversion", layout |-> l]
     ELSE IF anyMode("UpdateAfterBind") /\ anyMode("Dynamic")
     THEN [ok |-> FALSE, error |-> "DynamicWithUpdateAfterBind", layout |-> l]
     ELSE IF anyMode("UpdateAfterBind") /\ ~ValidateFlags(l.m_bindings, l.m_bindingFlags)
     THEN [ok |-> FALSE, error |-> "InvalidBinding", layout |-> l]
     ELSE IF ~driverOk
     THEN [ok |-> FALSE, error |-> "VulkanException", layout |-> l]
     ELSE [ok |-> TRUE, error |-> "none", layout |-> l]

\* The null pointer GetLayoutBinding returns for a binding the layout lacks.
nullptr == [null |-> TRUE]

\* GetLayoutBinding(bindingIndex)
GetLayoutBinding(l, bindingIndex) ==
  IF bindingIndex \in DOMAIN l.m_bindingsLookup
  THEN l.m_bindingsLookup[bindingIndex] ELSE nullptr

GetLayoutBindingFlag(l, bindingIndex) ==
  IF bindingIndex \in DOMAIN l.m_bindingFlagsLookup
  THEN l.m_bindingFlagsLookup[bindingIndex] ELSE 0

\* GetLayoutBinding(name)
GetLayoutBindingByName(l, name) ==
  IF name \in DOMAIN l.m_resourcesLookup
  THEN GetLayoutBinding(l, l.m_resourcesLookup[name]) ELSE nullptr

\* -------------------------------------------------------- descriptor pool

\* DescriptorPool::DescriptorPool. layoutRef is the layout the pool points to.
DescriptorPoolCtor(layoutRef, poolSize) ==
  [m_descriptorSetLayout |-> layoutRef,
   m_poolMaxSets         |-> poolSize,
   m_pools               |-> <<>>,
   m_poolSetsCount       |-> <<>>,
   m_poolIndex           |-> 0,
   m_setPoolMapping      |-> EmptyMap]

\* A search that never moves on from a sub-pool that exists.
FindAvailablePoolNoGrowth(p, searchIndex, createOk) ==
  IF Len(p.m_pools) <= searchIndex
  THEN IF ~createOk
       THEN [pool |-> p, index |-> 0]
       ELSE [pool  |-> [p EXCEPT !.m_pools = Append(@, Len(@) + 1),
                                 !.m_poolSetsCount = Append(@, 0)],
             index |-> searchIndex]
  ELSE [pool |-> p, index |-> searchIndex]

\* DescriptorPool::FindAvailablePool. Indices are 0-based as in the code;
\* sub-pool i is m_pools[i + 1]. createOk is the outcome of
\* vkCreateDescriptorPool. The result is [pool, index].
RECURSIVE FindAvailablePool(_, _, _)
FindAvailablePool(p, searchIndex, createOk) ==
  IF Len(p.m_pools) <= searchIndex
  THEN IF ~createOk
       THEN [pool |-> p, index |-> 0]
       ELSE [pool  |-> [p EXCEPT !.m_pools = Append(@, Len(@) + 1),
                                 !.m_poolSetsCount = Append(@, 0)],
             index |-> searchIndex]
  ELSE IF p.m_poolSetsCount[searchIndex + 1] < p.m_poolMaxSets
  THEN [pool |-> p, index |-> searchIndex]
  ELSE FindAvailablePool(p, searchIndex + 1, createOk)

\* An allocation that counts the set and forgets which sub-pool it came from.
AllocateDescriptorSetUnmapped(p, createOk, allocOk, newHandle) ==
  LET f  == FindAvailablePool(p, p.m_poolIndex, createOk)
      q  == [f.pool EXCEPT !.m_poolIndex = f.index]
  IN IF f.index >= Len(q.m_poolSetsCount)
     THEN [pool |-> q, handle |-> VK_NULL_HANDLE, ub |-> TRUE]
     ELSE IF ~allocOk
     THEN [pool |-> q, handle |-> VK_NULL_HANDLE, ub |-> FALSE]
     ELSE [pool   |-> [q EXCEPT !.m_poolSetsCount[f.index + 1] = @ + 1],
           handle |-> newHandle,
           ub     |-> FALSE]

\* An allocation that keeps the set counted when the driver rejects it.
AllocateDescriptorSetCountingRejected(p, createOk, allocOk, newHandle) ==
  LET f  == FindAvailablePool(p, p.m_poolIndex, createOk)
      q  == [f.pool EXCEPT !.m_poolIndex = f.index]
      c  == [q EXCEPT !.m_poolSetsCount[q.m_poolIndex + 1] = @ + 1]
  IN IF f.index >= Len(q.m_poolSetsCount)
     THEN [pool |-> q, handle |-> VK_NULL_HANDLE, ub |-> TRUE]
     ELSE IF ~allocOk
     THEN [pool |-> c, handle |-> VK_NULL_HANDLE, ub |-> FALSE]
     ELSE [pool   |-> [c EXCEPT !.m_setPoolMapping = MapEmplace(@, newHandle, c.m_poolIndex)],
           handle |-> newHandle,
           ub     |-> FALSE]

\* DescriptorPool::AllocateDescriptorSet. allocOk is the outcome of
\* vkAllocateDescriptorSets and newHandle the handle the driver returns.
\* The result is [pool, handle, ub]; ub marks the indexing of
\* m_poolSetsCount outside its size, which the code does not check.
AllocateDescriptorSet(p, createOk, allocOk, newHandle) ==
  LET f  == FindAvailablePool(p, p.m_poolIndex, createOk)
      q  == [f.pool EXCEPT !.m_poolIndex = f.index]
      \* ++m_poolSetsCount[m_poolIndex], before the driver is asked
      c  == [q EXCEPT !.m_poolSetsCount[q.m_poolIndex + 1] = @ + 1]
  IN IF f.index >= Len(q.m_poolSetsCount)
     THEN [pool |-> q, handle |-> VK_NULL_HANDLE, ub |-> TRUE]
     ELSE IF ~allocOk
     THEN [pool   |-> [c EXCEPT !.m_poolSetsCount[c.m_poolIndex + 1] = @ - 1],
           handle |-> VK_NULL_HANDLE,
           ub     |-> FALSE]
     ELSE [pool   |-> [c EXCEPT !.m_setPoolMapping = MapEmplace(@, newHandle, c.m_poolIndex)],
           handle |-> newHandle,
           ub     |-> FALSE]

\* --------------------------------------------------------- descriptor set

\* Device limits read by DescriptorSet::Prepare.
maxUniformBufferRange == 2

maxStorageBufferRange == 3

IsUniformBuffer(t) == t \in {"UNIFORM_BUFFER", "UNIFORM_BUFFER_DYNAMIC"}

IsStorageBuffer(t) == t \in {"STORAGE_BUFFER", "STORAGE_BUFFER_DYNAMIC"}

\* A clamping that knows the uniform buffer limit alone.
ClampedRangeUniformOnly(descriptorType, range) ==
  IF IsUniformBuffer(descriptorType) /\ range > maxUniformBufferRange
  THEN maxUniformBufferRange
  ELSE range

\* The range DescriptorSet::Prepare stores back into bufferInfo.range.
ClampedRange(descriptorType, range) ==
  IF IsUniformBuffer(descriptorType) /\ range > maxUniformBufferRange
  THEN maxUniformBufferRange
  ELSE IF IsStorageBuffer(descriptorType) /\ range > maxStorageBufferRange
  THEN maxStorageBufferRange
  ELSE range

\* One VkWriteDescriptorSet. pInfo is the map slot pBufferInfo or pImageInfo
\* points into: the pointed-to info is read when the entry is used.
WriteDescriptorSet(kind, handle, bindingInfo, slot) ==
  [dstBinding      |-> slot[1],
   descriptorType  |-> bindingInfo.descriptorType,
   infoKind        |-> kind,
   pInfo           |-> slot,
   dstSet          |-> handle,
   dstArrayElement |-> slot[2],
   descriptorCount |-> 1]

\* A buffer loop that stops at the first binding the layout does not have.
RECURSIVE PrepareBuffersAborting(_, _)
PrepareBuffersAborting(s, slots) ==
  IF slots = <<>> THEN s
  ELSE LET slot        == Head(slots)
           bindingInfo == GetLayoutBinding(s.m_descriptorSetLayout, slot[1])
       IN IF bindingInfo = nullptr THEN s
          ELSE PrepareBuffersAborting(
                 [s EXCEPT !.m_bufferInfos[slot].range =
                               ClampedRange(bindingInfo.descriptorType, @),
                           !.m_writeDescriptorSets =
                               Append(@, WriteDescriptorSet("buffer", s.m_handle, bindingInfo, slot))],
                 Tail(slots))

\* The buffer loop of Prepare over the slots of m_bufferInfos, in map order.
RECURSIVE PrepareBuffers(_, _)
PrepareBuffers(s, slots) ==
  IF slots = <<>> THEN s
  ELSE LET slot        == Head(slots)
           bindingInfo == GetLayoutBinding(s.m_descriptorSetLayout, slot[1])
       IN IF bindingInfo = nullptr THEN PrepareBuffers(s, Tail(slots))
          ELSE PrepareBuffers(
                 [s EXCEPT !.m_bufferInfos[slot].range =
                               ClampedRange(bindingInfo.descriptorType, @),
                           !.m_writeDescriptorSets =
                               Append(@, WriteDescriptorSet("buffer", s.m_handle, bindingInfo, slot))],
                 Tail(slots))

\* The image loop of Prepare over the slots of m_imageInfos, in map order.
RECURSIVE PrepareImages(_, _)
PrepareImages(s, slots) ==
  IF slots = <<>> THEN s
  ELSE LET slot        == Head(slots)
           bindingInfo == GetLayoutBinding(s.m_descriptorSetLayout, slot[1])
       IN IF bindingInfo = nullptr THEN PrepareImages(s, Tail(slots))
          ELSE PrepareImages(
                 [s EXCEPT !.m_writeDescriptorSets =
                               Append(@, WriteDescriptorSet("image", s.m_handle, bindingInfo, slot))],
                 Tail(slots))

\* DescriptorSet::Prepare
Prepare(s) ==
  IF s.m_writeDescriptorSets # <<>> THEN s
  ELSE PrepareImages(PrepareBuffers(s, SortPairs(DOMAIN s.m_bufferInfos)),
                     SortPairs(DOMAIN s.m_imageInfos))

\* DescriptorSet::DescriptorSet, given the handle its pool allocated.
\* m_descriptorSetLayout holds the referenced layout, m_descriptorPool the
\* key of the referenced pool.
DescriptorSetCtor(layout, poolRef, bufferInfos, imageInfos, handle) ==
  Prepare([m_descriptorSetLayout |-> layout,
           m_descriptorPool      |-> poolRef,
           m_bufferInfos         |-> bufferInfos,
           m_imageInfos          |-> imageInfos,
           m_handle              |-> handle,
           m_writeDescriptorSets |-> <<>>,
           m_updatedBindings     |-> EmptyMap])

\* -------------------------------------------------------- resource record

\* A default-constructed ResourceRecord. m_stream is the log, one element
\* per tagged entry written.
EmptyRecorder ==
  [m_stream                  |-> <<>>,
   m_streamPos               |-> 0,
   m_shaderModuleIndices     |-> <<>>,
   m_pipelineLayoutIndices   |-> <<>>,
   m_renderPassIndices       |-> <<>>,
   m_graphicsPipelineIndices |-> <<>>,
   m_shaderModuleToIndex     |-> EmptyMap,
   m_pipelineLayoutToIndex   |-> EmptyMap,
   m_renderPassToIndex       |-> EmptyMap,
   m_graphicsPipelineToIndex |-> EmptyMap]

\* write(m_stream, ...): one tagged entry goes to the stream's put position.
\* The put position is the end of what was written, except after SetData:
\* std::ostringstream::str(s) leaves it at the start of the new content, so
\* the next writes replace that content from its first entry on.
StreamWrite(r, entry) ==
  [r EXCEPT !.m_stream = IF r.m_streamPos < Len(@)
                         THEN [@ EXCEPT ![r.m_streamPos + 1] = entry]
                         ELSE Append(@, entry),
            !.m_streamPos = @ + 1]

\* ResourceRecord::RegisterShaderModule. The result is [rec, index, ok].
RegisterShaderModule(r, stage, source, entryPoint, variant) ==
  LET r1 == [r EXCEPT !.m_shaderModuleIndices = Append(@, Len(@))]
      r2 == StreamWrite(r1,
               [type |-> "ShaderModule", stage |-> stage, source |-> source,
                entryPoint |-> entryPoint, preamble |-> variant.preamble,
                processes |-> variant.processes])
  IN [rec |-> r2, index |-> r2.m_shaderModuleIndices[Len(r2.m_shaderModuleIndices)], ok |-> TRUE]

\* ResourceRecord::RegisterPipelineLayout. unordered_map::at throws for a
\* module with no recorded index: ok is then FALSE and nothing is written.
RegisterPipelineLayout(r, shaderModules) ==
  LET r1 == [r EXCEPT !.m_pipelineLayoutIndices = Append(@, Len(@))]
      known == \A i \in 1..Len(shaderModules) :
                 shaderModules[i].addr \in DOMAIN r.m_shaderModuleToIndex
      shaderIndices == [i \in 1..Len(shaderModules) |->
                          r.m_shaderModuleToIndex[shaderModules[i].addr]]
      index == r1.m_pipelineLayoutIndices[Len(r1.m_pipelineLayoutIndices)]
  IN IF ~known THEN [rec |-> r1, index |-> index, ok |-> FALSE]
     ELSE [rec |-> StreamWrite(r1,
                      [type |-> "PipelineLayout", shaderIndices |-> shaderIndices]),
           index |-> index, ok |-> TRUE]

\* A WriteSubpassInfo that leaves the output attachments out: the fault C5
\* is checked to be sensitive to.
WriteSubpassInfoInputsOnly(subpasses) ==
  [i \in 1..Len(subpasses) |->
     [input_attachments  |-> subpasses[i].input_attachments,
      output_attachments |-> <<>>]]

\* WriteSubpassInfo: the two fields written for each subpass.
WriteSubpassInfo(subpasses) ==
  [i \in 1..Len(subpasses) |->
     [input_attachments  |-> subpasses[i].input_attachments,
      output_attachments |-> subpasses[i].output_attachments]]

\* A RegisterRenderPass that writes no entry: the fault C4 is checked to be
\* sensitive to.
RegisterRenderPassUnwritten(r, attachments, loadStoreInfos, subpasses) ==
  LET r1 == [r EXCEPT !.m_renderPassIndices = Append(@, Len(@))]
  IN [rec |-> r1, index |-> r1.m_renderPassIndices[Len(r1.m_renderPassIndices)], ok |-> TRUE]

\* ResourceRecord::RegisterRenderPass
RegisterRenderPass(r, attachments, loadStoreInfos, subpasses) ==
  LET r1 == [r EXCEPT !.m_renderPassIndices = Append(@, Len(@))]
      r2 == StreamWrite(r1,
               [type |-> "RenderPass", attachments |-> attachments,
                loadStoreInfos |-> loadStoreInfos,
                subpasses |-> WriteSubpassInfo(subpasses)])
  IN [rec |-> r2, index |-> r2.m_renderPassIndices[Len(r2.m_renderPassIndices)], ok |-> TRUE]

\* ResourceRecord::RegisterGraphicsPipeline. The pipeline cache handle is
\* not written.
RegisterGraphicsPipeline(r, pipelineCache, pipelineState) ==
  LET r1 == [r EXCEPT !.m_graphicsPipelineIndices = Append(@, Len(@))]
      known == /\ pipelineState.pipeline_layout.addr \in DOMAIN r.m_pipelineLayoutToIndex
               /\ pipelineState.render_pass.addr \in DOMAIN r.m_renderPassToIndex
      index == r1.m_graphicsPipelineIndices[Len(r1.m_graphicsPipelineIndices)]
  IN IF ~known THEN [rec |-> r1, index |-> index, ok |-> FALSE]
     ELSE [rec |-> StreamWrite(r1,
                      [type |-> "GraphicsPipeline",
                       pipelineLayout |-> r.m_pipelineLayoutToIndex[pipelineState.pipeline_layout.addr],
                       renderPass     |-> r.m_renderPassToIndex[pipelineState.render_pass.addr],
                       subpass_index  |-> pipelineState.subpass_index,
                       state          |-> pipelineState.state]),
           index |-> index, ok |-> TRUE]

\* ResourceRecord::SetShaderModule
SetShaderModule(r, index, shaderModule) ==
  [r EXCEPT !.m_shaderModuleToIndex = MapAssign(@, shaderModule.addr, index)]

\* ResourceRecord::SetPipelineLayout
SetPipelineLayout(r, index, pipelineLayout) ==
  [r EXCEPT !.m_pipelineLayoutToIndex = MapAssign(@, pipelineLayout.addr, index)]

\* ResourceRecord::SetRenderPass
SetRenderPass(r, index, renderPass) ==
  [r EXCEPT !.m_renderPassToIndex = MapAssign(@, renderPass.addr, index)]

\* ResourceRecord::SetGraphicsPipeline
SetGraphicsPipeline(r, index, graphicsPipeline) ==
  [r EXCEPT !.m_graphicsPipelineToIndex = MapAssign(@, graphicsPipeline.addr, index)]

\* ResourceRecord::GetData: the bytes of the stream.
GetData(r) == r.m_stream

\* ResourceRecord::SetData: replaces the stream's content; the index vectors
\* and the pointer tables stay.
SetData(r, data) == [r EXCEPT !.m_stream = data, !.m_streamPos = 0]

\* The resource kinds the recorder has a tag and a Register function for
\* (enum class ResourceType).
ResourceType == {"ShaderModule", "PipelineLayout", "RenderPass", "GraphicsPipeline"}

\* --------------------------------------------------------- resource cache

\* The maps of ResourceCacheState, by field name.
Kinds ==
  {"shader_modules", "pipeline_layouts", "descriptor_set_layouts",
   "descriptor_pools", "render_passes", "graphics_pipelines",
   "compute_pipelines", "descriptor_sets", "framebuffers"}

\* Pipeline layouts guarded by the shader module mutex: the fault C3 is
\* checked to be sensitive to.
MutexOfShared(kind) ==
  CASE kind = "shader_modules"         -> "m_shaderModuleMutex"
    [] kind = "pipeline_layouts"       -> "m_shaderModuleMutex"
    [] kind = "descriptor_set_layouts" -> "m_descriptorSetLayoutMutex"
    [] kind = "graphics_pipelines"     -> "m_graphicsPipelineMutex"
    [] kind = "compute_pipelines"      -> "m_computePipelineMutex"
    [] kind = "descriptor_pools"       -> "m_descriptorSetMutex"
    [] kind = "descriptor_sets"        -> "m_descriptorSetMutex"
    [] kind = "render_passes"          -> "m_renderPassMutex"
    [] kind = "framebuffers"           -> "m_framebufferMutex"

\* The mutex each Request* function hands to RequestResource for a map.
MutexOf(kind) ==
  CASE kind = "shader_modules"         -> "m_shaderModuleMutex"
    [] kind = "pipeline_layouts"       -> "m_pipelineLayoutMutex"
    [] kind = "descriptor_set_layouts" -> "m_descriptorSetLayoutMutex"
    [] kind = "graphics_pipelines"     -> "m_graphicsPipelineMutex"
    [] kind = "compute_pipelines"      -> "m_computePipelineMutex"
    [] kind = "descriptor_pools"       -> "m_descriptorSetMutex"
    [] kind = "descriptor_sets"        -> "m_descriptorSetMutex"
    [] kind = "render_passes"          -> "m_renderPassMutex"
    [] kind = "framebuffers"           -> "m_framebufferMutex"

\* The std::mutex members of ResourceCache.
Mutexes ==
  {"m_descriptorSetMutex", "m_pipelineLayoutMutex", "m_shaderModuleMutex",
   "m_descriptorSetLayoutMutex", "m_graphicsPipelineMutex", "m_renderPassMutex",
   "m_computePipelineMutex", "m_framebufferMutex"}

\* What a request returns when nothing is returned yet, and when it throws.
NoObject == [addr |-> 0, id |-> <<>>]

Thrown == [addr |-> -1, id |-> <<>>]

\* A ResourceCache after construction. nextAddr is the address the next
\* constructed object gets, builds counts the constructor calls per
\* <<kind, key>>, ret is what the last request returned.
NewCache ==
  [m_state         |-> [k \in Kinds |-> EmptyMap],
   m_recorder      |-> EmptyRecorder,
   m_pipelineCache |-> VK_NULL_HANDLE,
   nextAddr        |-> 1,
   builds          |-> EmptyMap,
   ret             |-> NoObject]

BuildCount(c, kind, key) ==
  IF <<kind, key>> \in DOMAIN c.builds THEN c.builds[<<kind, key>>] ELSE 0

\* RecordHelper<T, A...>::record followed by ::index, for the kinds the
\* recorder has functions for; the generic helper records nothing.
\* The result is [rec, ok].
RecordHelper(r, kind, args, object) ==
  CASE kind = "shader_modules" ->
         LET g == RegisterShaderModule(r, args.stage, args.source, args.entryPoint, args.variant)
         IN [rec |-> SetShaderModule(g.rec, g.index, object), ok |-> TRUE]
    [] kind = "pipeline_layouts" ->
         LET g == RegisterPipelineLayout(r, args.shaderModules)
         IN IF g.ok THEN [rec |-> SetPipelineLayout(g.rec, g.index, object), ok |-> TRUE]
            ELSE [rec |-> g.rec, ok |-> FALSE]
    [] kind = "render_passes" ->
         LET g == RegisterRenderPass(r, args.attachments, args.loadStoreInfos, args.subpasses)
         IN [rec |-> SetRenderPass(g.rec, g.index, object), ok |-> TRUE]
    [] kind = "graphics_pipelines" ->
         LET g == RegisterGraphicsPipeline(r, args.pipelineCache, args.pipelineState)
         IN IF g.ok THEN [rec |-> SetGraphicsPipeline(g.rec, g.index, object), ok |-> TRUE]
            ELSE [rec |-> g.rec, ok |-> FALSE]
    [] OTHER -> [rec |-> r, ok |-> TRUE]

\* request_resource, the lookup: resources.find(hash).
CacheHit(c, kind, key) == key \in DOMAIN c.m_state[kind]

\* request_resource on a hit.
ReturnCached(c, kind, key) == [c EXCEPT !.ret = c.m_state[kind][key]]

\* request_resource on a miss: T resource(device, args...), emplace, record.
\* built is the constructed object without its address; c already holds the
\* constructor's effects on other objects. A refused emplace throws.
BuildAndInsert(c, kind, key, built, args) ==
  LET object == built @@ [addr |-> c.nextAddr, id |-> key]
      c1 == [c EXCEPT !.nextAddr = @ + 1,
                      !.builds = MapAssign(@, <<kind, key>>, BuildCount(c, kind, key) + 1)]
  IN IF key \in DOMAIN c.m_state[kind]
     THEN [c1 EXCEPT !.ret = Thrown]
     ELSE LET h == RecordHelper(c.m_recorder, kind, args, object)
          IN [c1 EXCEPT !.m_state[kind] = MapEmplace(@, key, object),
                        !.m_recorder = h.rec,
                        !.ret = IF h.ok THEN object ELSE Thrown]

\* request_resource(device, recorder, resources, args...)
request_resource(c, kind, key, built, args) ==
  IF CacheHit(c, kind, key) THEN ReturnCached(c, kind, key)
  ELSE BuildAndInsert(c, kind, key, built, args)

\* RequestResource: request_resource under a lock_guard of resourceMutex.
\* Run as one step the guard has no effect of its own; the threads below
\* take it step by step.
RequestResource(c, kind, key, built, args) ==
  request_resource(c, kind, key, built, args)

\* An object built by a collaborator's constructor: only its identity counts.
\* A pipeline also keeps the pipeline cache handle it was created with.
External == [x \in {} |-> 0]

\* --- the key and the arguments of each Request* function

ShaderModuleArgs(stage, glslSource, shaderVariant) ==
  [stage |-> stage, source |-> glslSource, entryPoint |-> "main", variant |-> shaderVariant]

ShaderModuleKey(a) ==
  hash_param(<<>>, << <<a.stage>>, <<a.source>>, HashString(a.entryPoint),
                      <<a.variant.preamble>> \o a.variant.processes >>)

PipelineLayoutKey(shaderModules) == hash_param(<<>>, <<HashObjects(shaderModules)>>)

DescriptorSetLayoutKey(setIndex, shaderModules, setResources) ==
  hash_param(<<>>, << <<setIndex>>, HashObjects(shaderModules), HashResources(setResources) >>)

HashPipelineState(ps) ==
  hash_param(<<>>, << HashObject(ps.pipeline_layout), HashObject(ps.render_pass),
                      <<ps.subpass_index>>, <<ps.state>> >>)

PipelineKey(pipelineCache, ps) ==
  hash_param(<<>>, << <<pipelineCache>>, HashPipelineState(ps) >>)

DescriptorPoolKey(layout) == hash_param(<<>>, <<HashObject(layout)>>)

DescriptorSetKey(layout, pool, bufferInfos, imageInfos) ==
  hash_param(<<>>, << HashObject(layout), HashObject(pool),
                      HashBufferInfos(bufferInfos), HashImageInfos(imageInfos) >>)

RECURSIVE HashSubpasses(_)
HashSubpasses(sp) ==
  IF sp = <<>> THEN <<>>
  ELSE hash_param(<<>>, <<Head(sp).input_attachments, Head(sp).output_attachments>>)
         \o HashSubpasses(Tail(sp))

RenderPassKey(attachments, loadStoreInfos, subpasses) ==
  hash_param(<<>>, <<attachments, loadStoreInfos, HashSubpasses(subpasses)>>)

FramebufferKey(renderTarget, renderPass) ==
  hash_param(<<>>, << <<renderTarget>>, HashObject(renderPass) >>)

\* --- the Request* functions, each on a cache c, giving the cache after it

RequestShaderModule(c, stage, glslSource, shaderVariant) ==
  LET a == ShaderModuleArgs(stage, glslSource, shaderVariant)
  IN RequestResource(c, "shader_modules", ShaderModuleKey(a), External, a)

RequestPipelineLayout(c, shaderModules) ==
  RequestResource(c, "pipeline_layouts", PipelineLayoutKey(shaderModules), External,
                  [shaderModules |-> shaderModules])

\* The layout's constructor throws on a rejected resource set: nothing is
\* inserted then.
RequestDescriptorSetLayout(c, setIndex, shaderModules, setResources) ==
  LET key  == DescriptorSetLayoutKey(setIndex, shaderModules, setResources)
      ctor == DescriptorSetLayoutCtor(setIndex, setResources, TRUE)
  IN IF ~CacheHit(c, "descriptor_set_layouts", key) /\ ~ctor.ok
     THEN [c EXCEPT !.ret = Thrown]
     ELSE RequestResource(c, "descriptor_set_layouts", key, ctor.layout,
                          [setIndex |-> setIndex])

RequestGraphicsPipeline(c, pipelineState) ==
  RequestResource(c, "graphics_pipelines", PipelineKey(c.m_pipelineCache, pipelineState),
                  [pipelineCache |-> c.m_pipelineCache],
                  [pipelineCache |-> c.m_pipelineCache, pipelineState |-> pipelineState])

RequestComputePipeline(c, pipelineState) ==
  RequestResource(c, "compute_pipelines", PipelineKey(c.m_pipelineCache, pipelineState),
                  [pipelineCache |-> c.m_pipelineCache],
                  [pipelineCache |-> c.m_pipelineCache, pipelineState |-> pipelineState])

\* The first RequestResource of RequestDescriptorSet: the layout's pool.
RequestDescriptorPool(c, descriptorSetLayout) ==
  RequestResource(c, "descriptor_pools", DescriptorPoolKey(descriptorSetLayout),
                  DescriptorPoolCtor(descriptorSetLayout.addr, MAX_SETS_PER_POOL),
                  [layout |-> descriptorSetLayout.addr])

\* The DescriptorSet constructor on a miss: the pool allocates the handle
\* (the driver succeeds and hands out a handle not in use), which changes
\* the pool object inside the cache.
ConstructDescriptorSet(c, descriptorSetLayout, poolKey, bufferInfos, imageInfos) ==
  LET alloc == AllocateDescriptorSet(c.m_state["descriptor_pools"][poolKey],
                                     TRUE, TRUE, c.nextAddr)
  IN [cache |-> [c EXCEPT !.m_state["descriptor_pools"][poolKey] = alloc.pool],
      built |-> DescriptorSetCtor(descriptorSetLayout, poolKey, bufferInfos,
                                  imageInfos, alloc.handle)]

\* The second RequestResource of RequestDescriptorSet, for the pool the
\* first one returned.
RequestDescriptorSetIn(c, descriptorSetLayout, descriptorPool, bufferInfos, imageInfos) ==
  LET key == DescriptorSetKey(descriptorSetLayout, descriptorPool, bufferInfos, imageInfos)
  IN IF CacheHit(c, "descriptor_sets", key) THEN ReturnCached(c, "descriptor_sets", key)
     ELSE LET k == ConstructDescriptorSet(c, descriptorSetLayout, descriptorPool.id,
                                          bufferInfos, imageInfos)
          IN BuildAndInsert(k.cache, "descriptor_sets", key, k.built,
                            [layout |-> descriptorSetLayout.addr])

RequestDescriptorSet(c, descriptorSetLayout, bufferInfos, imageInfos) ==
  LET c1 == RequestDescriptorPool(c, descriptorSetLayout)
  IN RequestDescriptorSetIn(c1, descriptorSetLayout, c1.ret, bufferInfos, imageInfos)

RequestRenderPass(c, attachments, loadStoreInfos, subpasses) ==
  RequestResource(c, "render_passes", RenderPassKey(attachments, loadStoreInfos, subpasses),
                  External,
                  [attachments |-> attachments, loadStoreInfos |-> loadStoreInfos,
                   subpasses |-> subpasses])

RequestFramebuffer(c, renderTarget, renderPass) ==
  RequestResource(c, "framebuffers", FramebufferKey(renderTarget, renderPass), External,
                  [renderTarget |-> renderTarget])

\* --- the bulk clears, each giving the new m_state

\* A ClearPipelines that also empties the pipeline layouts: the fault C2 is
\* checked to be sensitive to.
ClearPipelinesAndLayouts(st) ==
  [st EXCEPT !["graphics_pipelines"] = EmptyMap,
             !["compute_pipelines"]  = EmptyMap,
             !["pipeline_layouts"]   = EmptyMap]

ClearPipelines(st) ==
  [st EXCEPT !["graphics_pipelines"] = EmptyMap,
             !["compute_pipelines"]  = EmptyMap]

ClearFramebuffers(st) == [st EXCEPT !["framebuffers"] = EmptyMap]

Clear(st) ==
  ClearFramebuffers(ClearPipelines(
    [st EXCEPT !["shader_modules"]         = EmptyMap,
               !["pipeline_layouts"]       = EmptyMap,
               !["descriptor_sets"]        = EmptyMap,
               !["descriptor_set_layouts"] = EmptyMap,
               !["render_passes"]          = EmptyMap]))

\* A SetPipelineCache that also drops the pipelines built with the old cache.
SetPipelineCacheClearing(c, newPipelineCache) ==
  [c EXCEPT !.m_pipelineCache = newPipelineCache, !.m_state = ClearPipelines(@)]

SetPipelineCache(c, newPipelineCache) == [c EXCEPT !.m_pipelineCache = newPipelineCache]

Serialize(c) == GetData(c.m_recorder)

\* --- UpdateDescriptorSets

\* The keys of a map in one fixed order. The iteration order of an
\* unordered_map is unspecified; it decides only the order of the entries
\* inside the one batch handed to the device.
RECURSIVE KeySeq(_)
KeySeq(S) == IF S = {} THEN <<>>
             ELSE LET k == CHOOSE x \in S : TRUE IN <<k>> \o KeySeq(S \ {k})

\* The innermost loop: the array elements of one cached set against one
\* (oldView, newView) pair. acc is [sets, matches, setUpdates].
RECURSIVE ScanSlots(_, _, _, _, _)
ScanSlots(acc, key, slots, oldView, newView) ==
  IF slots = <<>> THEN acc
  ELSE
    LET slot == Head(slots)
        descriptorSet == acc.sets[key]
    IN IF descriptorSet.m_imageInfos[slot].imageView # oldView
       THEN ScanSlots(acc, key, Tail(slots), oldView, newView)
       ELSE
         LET binding_info == GetLayoutBinding(descriptorSet.m_descriptorSetLayout, slot[1])
             write_descriptor_set ==
               [dstBinding      |-> slot[1],
                descriptorType  |-> binding_info.descriptorType,
                pImageInfo      |-> <<key, slot>>,
                dstSet          |-> descriptorSet.m_handle,
                dstArrayElement |-> slot[2],
                descriptorCount |-> 1]
         IN ScanSlots(
              [acc EXCEPT !.matches = @ \cup {key},
                          !.sets[key].m_imageInfos[slot].imageView = newView,
                          !.setUpdates = IF binding_info = nullptr THEN @
                                         ELSE Append(@, write_descriptor_set)],
              key, Tail(slots), oldView, newView)

\* The loop over the cached descriptor sets for one pair of views.
RECURSIVE ScanSets(_, _, _, _)
ScanSets(acc, keys, oldView, newView) ==
  IF keys = <<>> THEN acc
  ELSE ScanSets(ScanSlots(acc, Head(keys),
                          SortPairs(DOMAIN acc.sets[Head(keys)].m_imageInfos),
                          oldView, newView),
                Tail(keys), oldView, newView)

\* The outer loop over i < oldViews.size().
RECURSIVE ScanViews(_, _, _, _)
ScanViews(acc, i, oldViews, newViews) ==
  IF i > Len(oldViews) THEN acc
  ELSE ScanViews(ScanSets(acc, KeySeq(DOMAIN acc.sets), oldViews[i], newViews[i]),
                 i + 1, oldViews, newViews)

\* The first half of UpdateDescriptorSets: find and rewrite.
FindAndRewrite(sets, oldViews, newViews) ==
  ScanViews([sets |-> sets, matches |-> {}, setUpdates |-> <<>>], 1, oldViews, newViews)

\* A device call made even for an empty batch: the fault C8 is checked to be
\* sensitive to.
DeviceUpdateAlways(sets, setUpdates) ==
  << [i \in 1..Len(setUpdates) |->
        [dstSet          |-> setUpdates[i].dstSet,
         dstBinding      |-> setUpdates[i].dstBinding,
         dstArrayElement |-> setUpdates[i].dstArrayElement,
         descriptorType  |-> setUpdates[i].descriptorType,
         imageView       |-> sets[setUpdates[i].pImageInfo[1]]
                               .m_imageInfos[setUpdates[i].pImageInfo[2]].imageView]] >>

\* vkUpdateDescriptorSets(setUpdates): the calls made, each the batch of
\* entries with the image info each pImageInfo points to at that moment.
DeviceUpdate(sets, setUpdates) ==
  IF setUpdates = <<>> THEN <<>>
  ELSE << [i \in 1..Len(setUpdates) |->
             [dstSet          |-> setUpdates[i].dstSet,
              dstBinding      |-> setUpdates[i].dstBinding,
              dstArrayElement |-> setUpdates[i].dstArrayElement,
              descriptorType  |-> setUpdates[i].descriptorType,
              imageView       |-> sets[setUpdates[i].pImageInfo[1]]
                                    .m_imageInfos[setUpdates[i].pImageInfo[2]].imageView]] >>

\* The key generated for a moved-out descriptor set.
NewKey(descriptorSet) ==
  hash_param(<<>>, << HashObject(descriptorSet.m_descriptorSetLayout),
                      HashBufferInfos(descriptorSet.m_bufferInfos),
                      HashImageInfos(descriptorSet.m_imageInfos) >>)

\* The second half: each match is moved out of the map, erased and emplaced
\* under its new key. order is the order std::set<size_t> gives the matches.
RECURSIVE Rekey(_, _)
Rekey(sets, order) ==
  IF order = <<>> THEN sets
  ELSE LET match == Head(order)
           descriptorSet == sets[match]
       IN Rekey(MapEmplace(MapErase(sets, match), NewKey(descriptorSet), descriptorSet),
                Tail(order))

\* The orders a set of keys can be iterated in.
Orders(S) == {o \in [1..Cardinality(S) -> S] : \A i, j \in DOMAIN o : o[i] = o[j] => i = j}

\* UpdateDescriptorSets from the end of its scan on: the device call, then
\* the re-keying. The result is [cache, calls].
UpdateAndRekey(c, found, order) ==
  [cache |-> [c EXCEPT !.m_state["descriptor_sets"] = Rekey(found.sets, order)],
   calls |-> DeviceUpdate(found.sets, found.setUpdates)]

\* ResourceCache::UpdateDescriptorSets
UpdateDescriptorSets(c, oldViews, newViews, order) ==
  UpdateAndRekey(c, FindAndRewrite(c.m_state["descriptor_sets"], oldViews, newViews), order)

\* --- Warmup

\* ResourceReplay::play: the entries in log order, each through the request
\* function of its kind; an entry's indices select among the objects the
\* earlier entries returned.
RECURSIVE ReplayLoop(_, _, _)
ReplayLoop(c, entries, seen) ==
  IF entries = <<>> THEN c
  ELSE
    LET e == Head(entries) IN
    CASE e.type = "ShaderModule" ->
           LET c1 == RequestShaderModule(c, e.stage, e.source,
                                         [preamble |-> e.preamble, processes |-> e.processes])
           IN ReplayLoop(c1, Tail(entries),
                         [seen EXCEPT !.shader_modules = Append(@, c1.ret)])
      [] e.type = "PipelineLayout" ->
           LET c1 == RequestPipelineLayout(c,
                       [i \in 1..Len(e.shaderIndices) |->
                          seen.shader_modules[e.shaderIndices[i] + 1]])
           IN ReplayLoop(c1, Tail(entries),
                         [seen EXCEPT !.pipeline_layouts = Append(@, c1.ret)])
      [] e.type = "RenderPass" ->
           LET c1 == RequestRenderPass(c, e.attachments, e.loadStoreInfos, e.subpasses)
           IN ReplayLoop(c1, Tail(entries),
                         [seen EXCEPT !.render_passes = Append(@, c1.ret)])
      [] e.type = "GraphicsPipeline" ->
           LET c1 == RequestGraphicsPipeline(c,
                       [pipeline_layout |-> seen.pipeline_layouts[e.pipelineLayout + 1],
                        render_pass     |-> seen.render_passes[e.renderPass + 1],
                        subpass_index   |-> e.subpass_index,
                        state           |-> e.state])
           IN ReplayLoop(c1, Tail(entries), seen)

play(c, data) ==
  ReplayLoop(c, data,
             [shader_modules |-> <<>>, pipeline_layouts |-> <<>>, render_passes |-> <<>>])

\* ResourceCache::Warmup
Warmup(c, data) == play([c EXCEPT !.m_recorder = SetData(@, data)], data)

\* ------------------------------------------------------ the state machine

VARIABLES
  cache,    \* the ResourceCache the application works on
  warm,     \* a second ResourceCache, fresh until it is warmed up
  evicted,  \* the <<kind, key>> a clear or a re-key removed and no request built since
  last,     \* the last operation run to its end: its name, inputs and effects
  upd,      \* the UpdateDescriptorSets call that is between its two loops
  mutex,    \* per std::mutex member, the thread that holds it (0: none)
  pc,       \* per thread, its position inside RequestResource
  req,      \* per thread, the request it is executing
  got,      \* per thread, what its last request returned
  dset,     \* a DescriptorSet used on its own, with the device calls of its last operations
  dpool,    \* a DescriptorPool used on its own, with the outcome of its last operations
  dlayout,  \* the outcome of the last DescriptorSetLayout construction
  frame,    \* a RenderFrame: its per-thread descriptor tables
  recorder  \* a ResourceRecord used on its own

\* The variables of the ResourceCache and of the threads that call it.
cacheVars == <<cache, warm, evicted, last, upd, mutex, pc, req, got>>

\* The variables of the objects used on their own.
unitVars == <<dset, dpool, dlayout, frame, recorder>>

vars == <<cache, warm, evicted, last, upd, mutex, pc, req, got, dset, dpool, dlayout, frame, recorder>>

Threads == 1..NumThreads

NoRequest == [kind |-> "none"]

NoUpdate == [pc |-> "idle"]

\* The objects used on their own are not in use.
Unused == [op |-> "none"]

UnitsIdle ==
  /\ dset = Unused
  /\ dpool = Unused
  /\ dlayout = Unused
  /\ frame = Unused
  /\ recorder = Unused

Init ==
  /\ cache = NewCache
  /\ warm = NewCache
  /\ evicted = {}
  /\ last = [op |-> "none"]
  /\ upd = NoUpdate
  /\ mutex = [m \in Mutexes |-> 0]
  /\ pc = [t \in Threads |-> "idle"]
  /\ req = [t \in Threads |-> NoRequest]
  /\ got = [t \in Threads |-> NoObject]
  /\ UnitsIdle

\* --- the inputs the operations are called with

Sources == {1, 2}

DefaultVariant == [preamble |-> 0, processes |-> <<>>]

Cached(c, kind) == Range(c.m_state[kind])

\* Lists of at most one cached shader module.
ModuleLists(c) == {<<>>} \cup {<<m>> : m \in Cached(c, "shader_modules")}

UniformBuffer ==
  [type |-> "BufferUniform", mode |-> "Static", binding |-> 0, array_size |-> 1,
   name |-> 1, stages |-> 1]

ImageSampler ==
  [type |-> "ImageSampler", mode |-> "Static", binding |-> 1, array_size |-> 2,
   name |-> 2, stages |-> 1]

\* A set with a uniform buffer at binding 0 and an image sampler array at
\* binding 1, and a set with the buffer alone.
ResourceSets == {<<UniformBuffer, ImageSampler>>, <<UniformBuffer>>}

\* BindingMap<VkDescriptorBufferInfo>: one buffer at binding 0 whose range
\* is above the device's uniform buffer limit.
BufferMaps ==
  {[s \in {<<0, 0>>} |-> [buffer |-> 1, offset |-> 0, range |-> maxUniformBufferRange + 1]]}

Views == 1..NumViews

\* BindingMap<VkDescriptorImageInfo>: an image view at binding 1 and the
\* first view at binding 2, which no layout has.
ImageMaps ==
  {[s \in {<<1, 0>>, <<2, 0>>} |-> [imageView |-> IF s[1] = 1 THEN v ELSE 1]] : v \in Views}


Subpasses == {<<[input_attachments |-> <<>>, output_attachments |-> <<0>>]>>}

\* The construction budget of a run: the cache c2 an operation leaves has
\* constructed at most budget objects.
Within(c2, budget) == c2.nextAddr <= budget + 1

Bounded(c2) == Within(c2, MaxBuilds)

\* The <<kind, key>> pairs constructed between cache c and cache c2.
BuiltBy(c, c2) ==
  {x \in DOMAIN c2.builds : c2.builds[x] # BuildCount(c, x[1], x[2])}

\* The keys of the maps in kinds, noted as removed.
Evict(ev, st, kinds) ==
  ev \cup UNION {{<<k, key>> : key \in DOMAIN st[k]} : k \in kinds}

\* The application still works on the first cache: the second one is warmed
\* up when the run ends.
Running == warm = NewCache

\* The effect every request has on the variables: c2 is the cache after it.
Requested(op, c2) ==
  /\ Running
  /\ Bounded(c2)
  /\ cache' = c2
  /\ last' = [op |-> op, miss |-> c2.nextAddr # cache.nextAddr]
  /\ evicted' = evicted \ BuiltBy(cache, c2)
  /\ UNCHANGED <<warm, upd, mutex, pc, req, got, dset, dpool, dlayout, frame, recorder>>

\* --- the operations, each run from call to return

CallRequestShaderModule ==
  \E source \in Sources :
    Requested("RequestShaderModule", RequestShaderModule(cache, 1, source, DefaultVariant))

CallRequestPipelineLayout ==
  \E shaderModules \in ModuleLists(cache) :
    Requested("RequestPipelineLayout", RequestPipelineLayout(cache, shaderModules))

CallRequestDescriptorSetLayout ==
  \E setResources \in ResourceSets :
    Requested("RequestDescriptorSetLayout",
              RequestDescriptorSetLayout(cache, 0, <<>>, setResources))

CallRequestRenderPass ==
  \E subpasses \in Subpasses :
    Requested("RequestRenderPass", RequestRenderPass(cache, <<1>>, <<1>>, subpasses))

CallRequestGraphicsPipeline ==
  \E pipelineLayout \in Cached(cache, "pipeline_layouts"),
     renderPass \in Cached(cache, "render_passes") :
    Requested("RequestGraphicsPipeline",
              RequestGraphicsPipeline(cache,
                [pipeline_layout |-> pipelineLayout, render_pass |-> renderPass,
                 subpass_index |-> 0, state |-> 0]))

CallRequestComputePipeline ==
  \E pipelineLayout \in Cached(cache, "pipeline_layouts") :
    Requested("RequestComputePipeline",
              RequestComputePipeline(cache,
                [pipeline_layout |-> pipelineLayout, render_pass |-> NoObject,
                 subpass_index |-> 0, state |-> 0]))

\* RequestDescriptorSet with the binding maps drawn from the given sets.
CallRequestDescriptorSet(bufferMaps, imageMaps, budget) ==
  \E descriptorSetLayout \in Cached(cache, "descriptor_set_layouts"),
     bufferInfos \in bufferMaps, imageInfos \in imageMaps :
    /\ Running
    /\ Within(RequestDescriptorSet(cache, descriptorSetLayout, bufferInfos, imageInfos), budget)
    /\ cache' = RequestDescriptorSet(cache, descriptorSetLayout, bufferInfos, imageInfos)
    /\ last' = [op |-> "RequestDescriptorSet", miss |-> cache'.nextAddr # cache.nextAddr,
                layout |-> descriptorSetLayout,
                bufferInfos |-> bufferInfos, imageInfos |-> imageInfos]
    /\ evicted' = evicted \ BuiltBy(cache, cache')
    /\ UNCHANGED <<warm, upd, mutex, pc, req, got, dset, dpool, dlayout, frame, recorder>>

CallRequestFramebuffer ==
  \E renderPass \in Cached(cache, "render_passes") :
    Requested("RequestFramebuffer", RequestFramebuffer(cache, 1, renderPass))

CallSetPipelineCache ==
  \E newPipelineCache \in {VK_NULL_HANDLE, 1} :
    /\ Running
    /\ cache' = SetPipelineCache(cache, newPipelineCache)
    /\ last' = [op |-> "SetPipelineCache"]
    /\ UNCHANGED <<warm, upd, evicted, mutex, pc, req, got, dset, dpool, dlayout, frame, recorder>>

CallClearPipelines ==
  /\ Running
  /\ cache' = [cache EXCEPT !.m_state = ClearPipelines(@)]
  /\ evicted' = Evict(evicted, cache.m_state, {"graphics_pipelines", "compute_pipelines"})
  /\ last' = [op |-> "ClearPipelines"]
  /\ UNCHANGED <<warm, upd, mutex, pc, req, got, dset, dpool, dlayout, frame, recorder>>

CallClearFramebuffers ==
  /\ Running
  /\ cache' = [cache EXCEPT !.m_state = ClearFramebuffers(@)]
  /\ evicted' = Evict(evicted, cache.m_state, {"framebuffers"})
  /\ last' = [op |-> "ClearFramebuffers"]
  /\ UNCHANGED <<warm, upd, mutex, pc, req, got, dset, dpool, dlayout, frame, recorder>>

CallClear ==
  /\ Running
  /\ cache' = [cache EXCEPT !.m_state = Clear(@)]
  /\ evicted' = Evict(evicted, cache.m_state, Kinds \ {"descriptor_pools"})
  /\ last' = [op |-> "Clear"]
  /\ UNCHANGED <<warm, upd, mutex, pc, req, got, dset, dpool, dlayout, frame, recorder>>

\* UpdateDescriptorSets with two view lists of the same length, at most
\* maxLen. The matches are re-keyed in one of the orders their keys can have.
CallUpdateDescriptorSets(maxLen) ==
  \E n \in 0..maxLen :
    \E oldViews \in [1..n -> Views], newViews \in [1..n -> Views] :
      LET found == FindAndRewrite(cache.m_state["descriptor_sets"], oldViews, newViews)
      IN \E order \in Orders(found.matches) :
           LET u == UpdateAndRekey(cache, found, order)
           IN /\ Running
              /\ cache' = u.cache
              /\ evicted' = evicted \cup {<<"descriptor_sets", k>> : k \in found.matches}
              /\ last' = [op |-> "UpdateDescriptorSets", oldViews |-> oldViews,
                          newViews |-> newViews,
                          before |-> cache.m_state["descriptor_sets"],
                          calls |-> u.calls]
              /\ UNCHANGED <<warm, upd, mutex, pc, req, got, dset, dpool, dlayout, frame, recorder>>

\* Warmup of the second cache with the bytes the first one serializes.
CallWarmup ==
  /\ Running
  /\ Serialize(cache) # <<>>
  /\ warm' = Warmup(warm, Serialize(cache))
  /\ last' = [op |-> "Warmup"]
  /\ UNCHANGED <<cache, evicted, upd, mutex, pc, req, got, dset, dpool, dlayout, frame, recorder>>

\* --- the cache driven by one thread, every kind of resource

OneImage == {[s \in {<<1, 0>>} |-> [imageView |-> 1]]}

Next ==
  \/ CallRequestShaderModule
  \/ CallRequestPipelineLayout
  \/ CallRequestDescriptorSetLayout
  \/ CallRequestRenderPass
  \/ CallRequestGraphicsPipeline
  \/ CallRequestComputePipeline
  \/ CallRequestDescriptorSet({EmptyMap}, OneImage, MaxBuilds)
  \/ CallRequestFramebuffer
  \/ CallSetPipelineCache
  \/ CallClearPipelines
  \/ CallClearFramebuffers
  \/ CallClear
  \/ CallUpdateDescriptorSets(1)
  \/ CallWarmup

Spec == Init /\ [][Next]_vars

\* --- the descriptor sets of the cache driven by one thread

\* The cache after the application requested its descriptor set layout.
WithLayouts ==
  RequestDescriptorSetLayout(NewCache, 0, <<>>, <<UniformBuffer, ImageSampler>>)

InitSets ==
  /\ cache = WithLayouts
  /\ warm = NewCache
  /\ evicted = {}
  /\ last = [op |-> "RequestDescriptorSetLayout", miss |-> TRUE]
  /\ upd = NoUpdate
  /\ mutex = [m \in Mutexes |-> 0]
  /\ pc = [t \in Threads |-> "idle"]
  /\ req = [t \in Threads |-> NoRequest]
  /\ got = [t \in Threads |-> NoObject]
  /\ UnitsIdle

NextSets ==
  \/ CallRequestDescriptorSet(BufferMaps, ImageMaps, 1 + MaxSetBuilds)
  \/ CallUpdateDescriptorSets(MaxViewList)

SpecSets == InitSets /\ [][NextSets]_vars

\* --- the cache shared by threads, each inside RequestResource

\* A request a thread makes of RequestResource: the map, the key hashed
\* from the arguments, what the constructor yields and what is recorded.
Request(kind, key, built, args) ==
  [kind |-> kind, key |-> key, built |-> built, args |-> args]

\* The second RequestResource of RequestDescriptorSet; the set itself is
\* constructed when the request misses.
SetRequest(descriptorSetLayout, descriptorPool, bufferInfos, imageInfos) ==
  Request("descriptor_sets",
          DescriptorSetKey(descriptorSetLayout, descriptorPool, bufferInfos, imageInfos),
          [layout |-> descriptorSetLayout, pool |-> descriptorPool,
           bufferInfos |-> bufferInfos, imageInfos |-> imageInfos],
          [layout |-> descriptorSetLayout.addr])

\* The first RequestResource of RequestDescriptorSet; next is the second.
PoolRequest(descriptorSetLayout, bufferInfos, imageInfos) ==
  Request("descriptor_pools", DescriptorPoolKey(descriptorSetLayout),
          DescriptorPoolCtor(descriptorSetLayout.addr, MAX_SETS_PER_POOL),
          [layout |-> descriptorSetLayout.addr])
    @@ [next |-> [layout |-> descriptorSetLayout, bufferInfos |-> bufferInfos,
                  imageInfos |-> imageInfos]]

\* The RequestDescriptorSet calls a thread can make on cache c.
SetRequests(c, bufferMaps, imageMaps) ==
  {PoolRequest(l, b, i) : l \in Cached(c, "descriptor_set_layouts"),
                          b \in bufferMaps, i \in imageMaps}

\* The calls of the other Request* functions a thread can make on cache c,
\* each with one choice of arguments.
OtherRequests(c) ==
  LET a  == ShaderModuleArgs(1, 1, DefaultVariant)
      rs == <<UniformBuffer, ImageSampler>>
      sp == CHOOSE x \in Subpasses : TRUE
      gp(pl, rp) == [pipeline_layout |-> pl, render_pass |-> rp, subpass_index |-> 0,
                     state |-> 0]
  IN {Request("shader_modules", ShaderModuleKey(a), External, a),
      Request("pipeline_layouts", PipelineLayoutKey(<<>>), External, [shaderModules |-> <<>>]),
      Request("descriptor_set_layouts", DescriptorSetLayoutKey(0, <<>>, rs),
              DescriptorSetLayoutCtor(0, rs, TRUE).layout, [setIndex |-> 0]),
      Request("render_passes", RenderPassKey(<<1>>, <<1>>, sp), External,
              [attachments |-> <<1>>, loadStoreInfos |-> <<1>>, subpasses |-> sp])}
     \cup {Request("graphics_pipelines", PipelineKey(c.m_pipelineCache, gp(pl, rp)),
                   [pipelineCache |-> c.m_pipelineCache],
                   [pipelineCache |-> c.m_pipelineCache, pipelineState |-> gp(pl, rp)]) :
             pl \in Cached(c, "pipeline_layouts"), rp \in Cached(c, "render_passes")}
     \cup {Request("compute_pipelines", PipelineKey(c.m_pipelineCache, gp(pl, NoObject)),
                   [pipelineCache |-> c.m_pipelineCache],
                   [pipelineCache |-> c.m_pipelineCache, pipelineState |-> gp(pl, NoObject)]) :
             pl \in Cached(c, "pipeline_layouts")}
     \cup {Request("framebuffers", FramebufferKey(1, rp), External, [renderTarget |-> 1]) :
             rp \in Cached(c, "render_passes")}

\* A guard that never waits: the fault C1 is checked to be sensitive to.
CanLockAlways(mtx, m) == TRUE

\* std::lock_guard<std::mutex> guard(resourceMutex): the constructor returns
\* once no thread holds the mutex.
CanLock(mtx, m) == mtx[m] = 0

\* The miss branch of request_resource for a thread's request.
BuildRequested(c, r) ==
  IF r.kind = "descriptor_sets"
  THEN LET k == ConstructDescriptorSet(c, r.built.layout, r.built.pool.id,
                                       r.built.bufferInfos, r.built.imageInfos)
       IN BuildAndInsert(k.cache, r.kind, r.key, k.built, r.args)
  ELSE BuildAndInsert(c, r.kind, r.key, r.built, r.args)

\* A thread calls one of the Request* functions.
Call(t, requests) ==
  /\ pc[t] = "idle"
  /\ \E r \in requests :
       /\ req' = [req EXCEPT ![t] = r]
       /\ pc' = [pc EXCEPT ![t] = "lock"]
  /\ UNCHANGED <<cache, warm, evicted, last, upd, mutex, got, dset, dpool, dlayout, frame, recorder>>

\* RequestResource takes the mutex of its map.
Acquire(t) ==
  /\ pc[t] = "lock"
  /\ CanLock(mutex, MutexOf(req[t].kind))
  /\ mutex' = [mutex EXCEPT ![MutexOf(req[t].kind)] = t]
  /\ pc' = [pc EXCEPT ![t] = "find"]
  /\ UNCHANGED <<cache, warm, evicted, last, upd, req, got, dset, dpool, dlayout, frame, recorder>>

\* What a thread does with the object RequestResource returned: the pool
\* goes into the second RequestResource of RequestDescriptorSet, any other
\* object back to the caller. The guard's destructor released the mutex.
Return(t, object) ==
  /\ mutex' = [mutex EXCEPT ![MutexOf(req[t].kind)] = 0]
  /\ IF req[t].kind = "descriptor_pools"
     THEN /\ req' = [req EXCEPT ![t] = SetRequest(req[t].next.layout, object,
                                                  req[t].next.bufferInfos,
                                                  req[t].next.imageInfos)]
          /\ pc' = [pc EXCEPT ![t] = "lock"]
          /\ got' = got
     ELSE /\ req' = req
          /\ pc' = [pc EXCEPT ![t] = "idle"]
          /\ got' = [got EXCEPT ![t] = object]

\* request_resource looks the key up; a hit returns the cached object.
Lookup(t) ==
  /\ pc[t] = "find"
  /\ IF CacheHit(cache, req[t].kind, req[t].key)
     THEN /\ cache' = ReturnCached(cache, req[t].kind, req[t].key)
          /\ Return(t, cache'.ret)
     ELSE /\ pc' = [pc EXCEPT ![t] = "build"]
          /\ UNCHANGED <<cache, mutex, req, got>>
  /\ UNCHANGED <<warm, upd, evicted, last, dset, dpool, dlayout, frame, recorder>>

\* request_resource constructs, inserts and records the object on a miss.
Build(t, budget) ==
  /\ pc[t] = "build"
  /\ Within(BuildRequested(cache, req[t]), budget)
  /\ cache' = BuildRequested(cache, req[t])
  /\ Return(t, cache'.ret)
  /\ UNCHANGED <<warm, upd, evicted, last, dset, dpool, dlayout, frame, recorder>>

NextThreads ==
  \E t \in Threads :
    \/ Call(t, OtherRequests(cache) \cup SetRequests(cache, {EmptyMap}, OneImage))
    \/ Acquire(t)
    \/ Lookup(t)
    \/ Build(t, MaxBuilds)

SpecThreads == Init /\ [][NextThreads]_vars

\* --- UpdateDescriptorSets next to threads inside RequestDescriptorSet

\* The first loop of UpdateDescriptorSets, which rewrites the image infos
\* of the cached sets in place, and the device call after it. A run has one
\* call of UpdateDescriptorSets.
UpdateScan(maxLen) ==
  /\ upd.pc = "idle"
  /\ last.op # "UpdateDescriptorSets"
  /\ \E n \in 0..maxLen :
       \E oldViews \in [1..n -> Views], newViews \in [1..n -> Views] :
         LET found == FindAndRewrite(cache.m_state["descriptor_sets"], oldViews, newViews)
         IN \E order \in Orders(found.matches) :
              /\ cache' = [cache EXCEPT !.m_state["descriptor_sets"] = found.sets]
              /\ upd' = [pc |-> "rekey", order |-> order, oldViews |-> oldViews,
                         newViews |-> newViews,
                         before |-> cache.m_state["descriptor_sets"],
                         calls |-> DeviceUpdate(found.sets, found.setUpdates)]
  /\ UNCHANGED <<warm, evicted, last, mutex, pc, req, got, dset, dpool, dlayout, frame, recorder>>

\* The second loop of UpdateDescriptorSets, which moves every match to its
\* new key, and the return.
UpdateRekey ==
  /\ upd.pc = "rekey"
  /\ cache' = [cache EXCEPT !.m_state["descriptor_sets"] = Rekey(@, upd.order)]
  /\ evicted' = evicted \cup {<<"descriptor_sets", k>> : k \in Range(upd.order)}
  /\ last' = [op |-> "UpdateDescriptorSets", oldViews |-> upd.oldViews,
              newViews |-> upd.newViews, before |-> upd.before, calls |-> upd.calls]
  /\ upd' = NoUpdate
  /\ UNCHANGED <<warm, mutex, pc, req, got, dset, dpool, dlayout, frame, recorder>>

NextRace ==
  \/ \E t \in Threads :
       \/ Call(t, SetRequests(cache, BufferMaps, ImageMaps))
       \/ Acquire(t)
       \/ Lookup(t)
       \/ Build(t, 1 + MaxRaceBuilds)
  \/ UpdateScan(1)
  \/ UpdateRekey

SpecRace == InitSets /\ [][NextRace]_vars

\* ------------------------------------------- a descriptor set on its own

\* A Reset that keeps the applied hashes.
ResetKeepingHashes(s, newBufferInfos, newImageInfos) ==
  LET s1 == IF newBufferInfos # EmptyMap \/ newImageInfos # EmptyMap
            THEN [s EXCEPT !.m_bufferInfos = newBufferInfos,
                           !.m_imageInfos  = newImageInfos]
            ELSE s
  IN Prepare([s1 EXCEPT !.m_writeDescriptorSets = <<>>])

\* DescriptorSet::Reset
Reset(s, newBufferInfos, newImageInfos) ==
  LET s1 == IF newBufferInfos # EmptyMap \/ newImageInfos # EmptyMap
            THEN [s EXCEPT !.m_bufferInfos = newBufferInfos,
                           !.m_imageInfos  = newImageInfos]
            ELSE s
  IN Prepare([s1 EXCEPT !.m_writeDescriptorSets = <<>>,
                        !.m_updatedBindings     = EmptyMap])

\* The info a write-descriptor entry points to, as the set holds it now.
PointedInfo(s, w) ==
  IF w.infoKind = "buffer" THEN s.m_bufferInfos[w.pInfo] ELSE s.m_imageInfos[w.pInfo]

\* The entry as the device reads it in vkUpdateDescriptorSets.
DeviceWrite(s, w) ==
  [dstSet          |-> w.dstSet,
   dstBinding      |-> w.dstBinding,
   dstArrayElement |-> w.dstArrayElement,
   descriptorType  |-> w.descriptorType,
   info            |-> PointedInfo(s, w)]

\* hash_param(writeOperationHash, writeOperation): the content hash of one
\* entry, over its target and the info it points to.
\* As for the keys, the hash is the list of the hashed fields.
HashWriteDescriptorSet(s, w) ==
  << w.dstSet, w.dstBinding, w.dstArrayElement, w.descriptorCount,
     w.descriptorType, PointedInfo(s, w) >>

\* The first loop of Update: the indices of the entries to write, in order.
WriteOperations(s, bindingsToUpdate) ==
  LET wanted(w) == bindingsToUpdate = <<>> \/ w.dstBinding \in Range(bindingsToUpdate)
      stale(w)  == \/ w.dstBinding \notin DOMAIN s.m_updatedBindings
                   \/ s.m_updatedBindings[w.dstBinding] # HashWriteDescriptorSet(s, w)
  IN SelectSeq([i \in 1..Len(s.m_writeDescriptorSets) |-> i],
               LAMBDA i : wanted(s.m_writeDescriptorSets[i]) /\ stale(s.m_writeDescriptorSets[i]))

\* The last loop of Update: the hash of each written entry is stored under
\* its binding, a later entry of the same binding replacing an earlier one.
RECURSIVE StoreUpdatedBindings(_, _)
StoreUpdatedBindings(s, indices) ==
  IF indices = <<>> THEN s
  ELSE LET w == s.m_writeDescriptorSets[Head(indices)]
       IN StoreUpdatedBindings(
            [s EXCEPT !.m_updatedBindings =
                          MapAssign(@, w.dstBinding, HashWriteDescriptorSet(s, w))],
            Tail(indices))

\* DescriptorSet::Update. The result is [set, calls]: calls lists the
\* batches handed to vkUpdateDescriptorSets.
Update(s, bindingsToUpdate) ==
  LET indices == WriteOperations(s, bindingsToUpdate)
      batch   == [i \in 1..Len(indices) |-> DeviceWrite(s, s.m_writeDescriptorSets[indices[i]])]
  IN [set   |-> StoreUpdatedBindings(s, indices),
      calls |-> IF indices = <<>> THEN <<>> ELSE <<batch>>]

\* An ApplyWrites that leaves out the entries whose hash is applied.
ApplyWritesUnapplied(s) == Update(s, <<>>).calls

\* DescriptorSet::ApplyWrites: every entry, in one call.
ApplyWrites(s) ==
  << [i \in 1..Len(s.m_writeDescriptorSets) |-> DeviceWrite(s, s.m_writeDescriptorSets[i])] >>

\* GetBufferInfos()[binding][element].buffer = buffer: the caller changes
\* the buffer bound at a slot through the reference the accessor returns.
SetBoundBuffer(s, slot, buffer) == [s EXCEPT !.m_bufferInfos[slot].buffer = buffer]

\* --- the inputs

UniformBufferDynamic == [UniformBuffer EXCEPT !.mode = "Dynamic"]

StorageBuffer ==
  [type |-> "BufferStorage", mode |-> "Static", binding |-> 2, array_size |-> 1,
   name |-> 3, stages |-> 1]

StorageBufferDynamic == [StorageBuffer EXCEPT !.mode = "Dynamic"]

\* A layout with a uniform buffer at binding 0, an image sampler array at
\* binding 1 and a storage buffer at binding 2, the same with both buffers
\* dynamic, and a layout that has no binding 0.
UnitLayouts ==
  {DescriptorSetLayoutCtor(0, rs, TRUE).layout @@ [addr |-> 1, id |-> <<>>] :
     rs \in {<<UniformBuffer, ImageSampler, StorageBuffer>>,
             <<UniformBufferDynamic, ImageSampler, StorageBufferDynamic>>,
             <<ImageSampler, StorageBuffer>>}}

\* Buffers at bindings 0 and 2 whose ranges are at, or one above, the limit
\* of the binding's kind.
UnitBufferMaps ==
  {[s \in {<<0, 0>>, <<2, 0>>} |->
      [buffer |-> 1, offset |-> 0, range |-> IF s[1] = 0 THEN u ELSE st]] :
     u \in {maxUniformBufferRange, maxUniformBufferRange + 1},
     st \in {maxStorageBufferRange, maxStorageBufferRange + 1}}

\* One image at binding 1; two array elements at binding 1; one image at
\* binding 1 and one at binding 0, which the buffer map has too.
UnitImageMaps ==
  {[s \in d |-> [imageView |-> 1]] :
     d \in {{<<1, 0>>}, {<<1, 0>>, <<1, 1>>}, {<<0, 0>>, <<1, 0>>}}}

\* --- the state: the set, the binding maps it was last given, the device
\* calls of its last operation, and its last operations, latest last.

MaxHistory == 3

Remember(hist, op) ==
  LET h == Append(hist, op)
  IN IF Len(h) > MaxHistory THEN Tail(h) ELSE h

UnitSet(s, requested, calls, hist) ==
  [op |-> "DescriptorSet", set |-> s, requested |-> requested, calls |-> calls, hist |-> hist]

InitUnitSet ==
  /\ cache = NewCache
  /\ warm = NewCache
  /\ evicted = {}
  /\ last = [op |-> "none"]
  /\ upd = NoUpdate
  /\ mutex = [m \in Mutexes |-> 0]
  /\ pc = [t \in Threads |-> "idle"]
  /\ req = [t \in Threads |-> NoRequest]
  /\ got = [t \in Threads |-> NoObject]
  /\ dpool = Unused
  /\ dlayout = Unused
  /\ frame = Unused
  /\ recorder = Unused
  /\ \E layout \in UnitLayouts, bufferInfos \in UnitBufferMaps, imageInfos \in UnitImageMaps :
       dset = UnitSet(DescriptorSetCtor(layout, 0, bufferInfos, imageInfos, 1),
                      bufferInfos, <<>>, <<[name |-> "DescriptorSet"]>>)

\* Update(bindingsToUpdate), for every binding or for binding 1 alone.
CallUpdate ==
  \E bindingsToUpdate \in {<<>>, <<1>>} :
    LET u == Update(dset.set, bindingsToUpdate)
    IN /\ dset' = UnitSet(u.set, dset.requested, u.calls,
                          Remember(dset.hist, [name |-> "Update", bindingsToUpdate |-> bindingsToUpdate]))
       /\ UNCHANGED <<cacheVars, dpool, dlayout, frame, recorder>>

CallApplyWrites ==
  /\ dset' = UnitSet(dset.set, dset.requested, ApplyWrites(dset.set),
                     Remember(dset.hist, [name |-> "ApplyWrites"]))
  /\ UNCHANGED <<cacheVars, dpool, dlayout, frame, recorder>>

\* Reset with new binding maps, or with none.
CallReset ==
  \E new \in {[b |-> EmptyMap, i |-> EmptyMap]}
               \cup {[b |-> b, i |-> i] : b \in UnitBufferMaps, i \in {[s \in {<<1, 0>>} |-> [imageView |-> 2]]}} :
    /\ dset' = UnitSet(Reset(dset.set, new.b, new.i),
                       IF new.b = EmptyMap /\ new.i = EmptyMap
                       THEN dset.set.m_bufferInfos ELSE new.b,
                       <<>>, Remember(dset.hist, [name |-> "Reset"]))
    /\ UNCHANGED <<cacheVars, dpool, dlayout, frame, recorder>>

\* The caller binds the other buffer at one slot of the buffer map.
CallSetBoundBuffer ==
  \E slot \in DOMAIN dset.set.m_bufferInfos :
    /\ dset' = UnitSet(SetBoundBuffer(dset.set, slot, 3 - dset.set.m_bufferInfos[slot].buffer),
                       dset.requested, <<>>,
                       Remember(dset.hist, [name |-> "SetBoundBuffer", slot |-> slot]))
    /\ UNCHANGED <<cacheVars, dpool, dlayout, frame, recorder>>

NextUnitSet ==
  \/ CallUpdate
  \/ CallApplyWrites
  \/ CallReset
  \/ CallSetBoundBuffer

SpecUnitSet == InitUnitSet /\ [][NextUnitSet]_vars

\* ------------------------------------------ a descriptor pool on its own

\* The sub-pools may hold MaxPoolSize sets at most.
MaxPoolSize == 2

\* At most MaxAllocs descriptor set handles are handed out in one behaviour.
MaxAllocs == 5

VK_SUCCESS == 0

VK_INCOMPLETE == 5

\* A free that leaves the cursor where it was.
FreeDescriptorSetKeepingCursor(p, descriptorSet) ==
  IF descriptorSet \notin DOMAIN p.m_setPoolMapping
  THEN [pool |-> p, result |-> VK_INCOMPLETE, index |-> 0]
  ELSE LET descPoolIndex == p.m_setPoolMapping[descriptorSet]
       IN [pool   |-> [p EXCEPT !.m_setPoolMapping = MapErase(@, descriptorSet),
                                !.m_poolSetsCount[descPoolIndex + 1] = @ - 1],
           result |-> VK_SUCCESS,
           index  |-> descPoolIndex]

\* DescriptorPool::FreeDescriptorSet. The result is [pool, result, index].
FreeDescriptorSet(p, descriptorSet) ==
  IF descriptorSet \notin DOMAIN p.m_setPoolMapping
  THEN [pool |-> p, result |-> VK_INCOMPLETE, index |-> 0]
  ELSE LET descPoolIndex == p.m_setPoolMapping[descriptorSet]
       IN [pool   |-> [p EXCEPT !.m_setPoolMapping = MapErase(@, descriptorSet),
                                !.m_poolSetsCount[descPoolIndex + 1] = @ - 1,
                                !.m_poolIndex = descPoolIndex],
           result |-> VK_SUCCESS,
           index  |-> descPoolIndex]

\* A reset that leaves the cursor where it was.
DescriptorPoolResetKeepingCursor(p) ==
  [p EXCEPT !.m_poolSetsCount  = [i \in DOMAIN @ |-> 0],
            !.m_setPoolMapping = EmptyMap]

\* DescriptorPool::Reset
DescriptorPoolReset(p) ==
  [p EXCEPT !.m_poolSetsCount  = [i \in DOMAIN @ |-> 0],
            !.m_setPoolMapping = EmptyMap,
            !.m_poolIndex      = 0]

\* AllocateDescriptorSet gets to vkCreateDescriptorPool: the search from
\* m_poolIndex finds no existing sub-pool with room.
CreatesPool(p) ==
  Len(FindAvailablePool(p, p.m_poolIndex, TRUE).pool.m_pools) > Len(p.m_pools)

\* --- the state: the pool, the number of handles handed out, whether a set
\* was freed or the pool reset, whether a driver call failed, and the last
\* two operations, the latest last.

UnitPool(p, handles, freed, failed, hist) ==
  [op |-> "DescriptorPool", pool |-> p, handles |-> handles, freed |-> freed,
   failed |-> failed, hist |-> hist]

PoolLayout == DescriptorSetLayoutCtor(0, <<UniformBuffer, ImageSampler>>, TRUE).layout

InitUnitPool ==
  /\ cache = NewCache
  /\ warm = NewCache
  /\ evicted = {}
  /\ last = [op |-> "none"]
  /\ upd = NoUpdate
  /\ mutex = [m \in Mutexes |-> 0]
  /\ pc = [t \in Threads |-> "idle"]
  /\ req = [t \in Threads |-> NoRequest]
  /\ got = [t \in Threads |-> NoObject]
  /\ dset = Unused
  /\ dlayout = Unused
  /\ frame = Unused
  /\ recorder = Unused
  /\ \E poolSize \in 1..MaxPoolSize :
       dpool = UnitPool(DescriptorPoolCtor(PoolLayout, poolSize), 0, FALSE, FALSE,
                        <<[name |-> "DescriptorPool"], [name |-> "DescriptorPool"]>>)

\* AllocateDescriptorSet with the outcomes of the two driver calls. A
\* failed creation with no sub-pool at all indexes the empty
\* m_poolSetsCount and m_pools: the behaviour is undefined from there on,
\* and nothing more is said about the pool.
CallAllocateDescriptorSet ==
  \E createOk, allocOk \in BOOLEAN :
    LET p == dpool.pool
        a == AllocateDescriptorSet(p, createOk, allocOk, dpool.handles + 1)
        createFailed == CreatesPool(p) /\ ~createOk
    IN /\ dpool.op = "DescriptorPool"
       /\ dpool.handles < MaxAllocs
       /\ (~CreatesPool(p)) => createOk
       /\ dpool' =
            IF a.ub THEN [dpool EXCEPT !.op = "undefined"]
            ELSE UnitPool(a.pool,
                          IF a.handle = VK_NULL_HANDLE THEN dpool.handles ELSE dpool.handles + 1,
                          dpool.freed,
                          dpool.failed \/ createFailed \/ a.handle = VK_NULL_HANDLE,
                          <<dpool.hist[2],
                            [name |-> "AllocateDescriptorSet", createFailed |-> createFailed,
                             handle |-> a.handle, before |-> p]>>)
       /\ UNCHANGED <<cacheVars, dset, dlayout, frame, recorder>>

\* FreeDescriptorSet of a handle the pool handed out, freed before or not,
\* or of one it never handed out.
CallFreeDescriptorSet ==
  \E descriptorSet \in 1..(dpool.handles + 1) :
    LET f == FreeDescriptorSet(dpool.pool, descriptorSet)
    IN /\ dpool.op = "DescriptorPool"
       /\ dpool' = UnitPool(f.pool, dpool.handles, TRUE, dpool.failed,
                            <<dpool.hist[2],
                              [name |-> "FreeDescriptorSet", result |-> f.result,
                               index |-> f.index, descriptorSet |-> descriptorSet,
                               before |-> dpool.pool]>>)
       /\ UNCHANGED <<cacheVars, dset, dlayout, frame, recorder>>

CallDescriptorPoolReset ==
  /\ dpool.op = "DescriptorPool"
  /\ dpool' = UnitPool(DescriptorPoolReset(dpool.pool), dpool.handles, TRUE, dpool.failed,
                       <<dpool.hist[2], [name |-> "Reset", before |-> dpool.pool]>>)
  /\ UNCHANGED <<cacheVars, dset, dlayout, frame, recorder>>

NextUnitPool ==
  \/ CallAllocateDescriptorSet
  \/ CallFreeDescriptorSet
  \/ CallDescriptorPoolReset

SpecUnitPool == InitUnitPool /\ [][NextUnitPool]_vars

\* ------------------------------- the probe of FindAvailablePool on its own

\* The probed pools have MaxProbePools sub-pools at most.
MaxProbePools == 3

\* A probe that stays at a full sub-pool.
FindAvailablePoolStepStaying(p, searchIndex, createOk) ==
  IF Len(p.m_pools) <= searchIndex
  THEN IF ~createOk
       THEN [pool |-> p, index |-> 0, done |-> TRUE]
       ELSE [pool  |-> [p EXCEPT !.m_pools = Append(@, Len(@) + 1),
                                 !.m_poolSetsCount = Append(@, 0)],
             index |-> searchIndex, done |-> TRUE]
  ELSE IF p.m_poolSetsCount[searchIndex + 1] < p.m_poolMaxSets
  THEN [pool |-> p, index |-> searchIndex, done |-> TRUE]
  ELSE [pool |-> p, index |-> searchIndex, done |-> FALSE]

\* One activation of FindAvailablePool(searchIndex): it returns (done), or
\* calls itself with the next index. The result is [pool, index, done].
FindAvailablePoolStep(p, searchIndex, createOk) ==
  IF Len(p.m_pools) <= searchIndex
  THEN IF ~createOk
       THEN [pool |-> p, index |-> 0, done |-> TRUE]
       ELSE [pool  |-> [p EXCEPT !.m_pools = Append(@, Len(@) + 1),
                                 !.m_poolSetsCount = Append(@, 0)],
             index |-> searchIndex, done |-> TRUE]
  ELSE IF p.m_poolSetsCount[searchIndex + 1] < p.m_poolMaxSets
  THEN [pool |-> p, index |-> searchIndex, done |-> TRUE]
  ELSE [pool |-> p, index |-> searchIndex + 1, done |-> FALSE]

\* The pools a probe may find: any number of sub-pools up to MaxProbePools,
\* any live counts up to one above the capacity, any cursor up to one past
\* the first index that has no sub-pool.
ProbedPools ==
  {[DescriptorPoolCtor(PoolLayout, poolSize) EXCEPT
      !.m_pools = [i \in 1..n |-> i], !.m_poolSetsCount = counts, !.m_poolIndex = cursor] :
     poolSize \in 1..MaxPoolSize, n \in 0..MaxProbePools,
     counts \in UNION {[1..m -> 0..(MaxPoolSize + 1)] : m \in 0..MaxProbePools},
     cursor \in 0..(MaxProbePools + 1)}

\* --- the state: the pool the probe started on, the pool as it is, the
\* outcome vkCreateDescriptorPool will have, the index the next activation
\* gets, the indices visited so far, and the index returned once done.

InitProbe ==
  /\ cache = NewCache
  /\ warm = NewCache
  /\ evicted = {}
  /\ last = [op |-> "none"]
  /\ upd = NoUpdate
  /\ mutex = [m \in Mutexes |-> 0]
  /\ pc = [t \in Threads |-> "idle"]
  /\ req = [t \in Threads |-> NoRequest]
  /\ got = [t \in Threads |-> NoObject]
  /\ dset = Unused
  /\ dlayout = Unused
  /\ frame = Unused
  /\ recorder = Unused
  /\ \E p \in ProbedPools, createOk \in BOOLEAN :
       /\ Len(p.m_poolSetsCount) = Len(p.m_pools)
       /\ dpool = [op |-> "FindAvailablePool", start |-> p, pool |-> p,
                   createOk |-> createOk, searchIndex |-> p.m_poolIndex,
                   visited |-> <<>>, done |-> FALSE, index |-> 0]

\* The activation FindAvailablePool(searchIndex) runs.
Probe ==
  /\ dpool.op = "FindAvailablePool"
  /\ ~dpool.done
  /\ LET f == FindAvailablePoolStep(dpool.pool, dpool.searchIndex, dpool.createOk)
     IN dpool' = [dpool EXCEPT !.pool = f.pool,
                               !.visited = Append(@, dpool.searchIndex),
                               !.done = f.done,
                               !.searchIndex = IF f.done THEN @ ELSE f.index,
                               !.index = IF f.done THEN f.index ELSE @]
  /\ UNCHANGED <<cacheVars, dset, dlayout, frame, recorder>>

NextProbe == Probe

SpecProbe == InitProbe /\ [][NextProbe]_vars

\* A call that was made runs on: the activation at hand is executed.
SpecProbeFair == SpecProbe /\ WF_vars(NextProbe)

\* ----------------------------------- a descriptor set layout on its own

\* A resource set has MaxResources shader resources at most.
MaxResources == 2

\* The binding numbers and the names of the shader resources.
ResourceBindings == 0..1

ResourceNames == 1..2

\* Shader resources: a uniform buffer, an image sampler and a shader input
\* (which has no binding point), each in every mode.
ShaderResources(binding, name) ==
  {[type |-> t, mode |-> m, binding |-> binding, array_size |-> 1,
    name |-> name, stages |-> 1] :
     t \in {"BufferUniform", "ImageSampler", "Input"},
     m \in {"Static", "Dynamic", "UpdateAfterBind"}}

\* The resource sets of 1..MaxResources resources; two resources of a set
\* may carry the same binding number or the same name.
UnitResourceSets ==
  UNION {[1..n -> UNION {ShaderResources(b, k) : b \in ResourceBindings, k \in ResourceNames}] :
           n \in 1..MaxResources}

\* What the caller holds after a constructor that threw.
NoLayout == [constructed |-> FALSE]

InitUnitLayout ==
  /\ cache = NewCache
  /\ warm = NewCache
  /\ evicted = {}
  /\ last = [op |-> "none"]
  /\ upd = NoUpdate
  /\ mutex = [m \in Mutexes |-> 0]
  /\ pc = [t \in Threads |-> "idle"]
  /\ req = [t \in Threads |-> NoRequest]
  /\ got = [t \in Threads |-> NoObject]
  /\ dset = Unused
  /\ dpool = Unused
  /\ frame = Unused
  /\ recorder = Unused
  /\ dlayout = Unused

\* DescriptorSetLayout(device, 0, shaderModules, resourceSet), with the
\* outcome of vkCreateDescriptorSetLayout. One layout is followed at a time.
ConstructDescriptorSetLayout ==
  \E resourceSet \in UnitResourceSets, driverOk \in BOOLEAN :
    LET r == DescriptorSetLayoutCtor(0, resourceSet, driverOk)
    IN /\ dlayout = Unused
       /\ dlayout' = [op          |-> "DescriptorSetLayout",
                      resourceSet |-> resourceSet,
                      driverOk    |-> driverOk,
                      error       |-> r.error,
                      object      |-> IF r.ok THEN r.layout ELSE NoLayout]
       /\ UNCHANGED <<cacheVars, dset, dpool, frame, recorder>>

\* The caller drops the layout, or what is left of the failed construction.
DestroyDescriptorSetLayout ==
  /\ dlayout.op = "DescriptorSetLayout"
  /\ dlayout' = Unused
  /\ UNCHANGED <<cacheVars, dset, dpool, frame, recorder>>

NextUnitLayout ==
  \/ ConstructDescriptorSetLayout
  \/ DestroyDescriptorSetLayout

SpecUnitLayout == InitUnitLayout /\ [][NextUnitLayout]_vars

\* ------------------------------------------- a render frame on its own

\* The thread indices of a frame constructed with threadCount = NumThreads.
ThreadIndices == 0..(NumThreads - 1)

\* The frame builds MaxFrameBuilds pools and sets at most.
MaxFrameBuilds == 4

\* RenderFrame::RenderFrame: one empty pool table and one empty set table
\* per thread. nextAddr is the address or handle the next pool or set gets.
NewFrame ==
  [op                            |-> "RenderFrame",
   m_threadCount                 |-> NumThreads,
   m_descriptorPools             |-> [t \in ThreadIndices |-> EmptyMap],
   m_descriptorSets              |-> [t \in ThreadIndices |-> EmptyMap],
   m_descriptorManagementStrategy |-> "StoreInCache",
   nextAddr                      |-> 1,
   handle                        |-> VK_NULL_HANDLE,
   calls                         |-> <<>>,
   last                          |-> [name |-> "RenderFrame"]]

\* The tables request_resource is handed for thread threadIndex; the
\* recorder is nullptr, and pools and sets are not recorded anyway.
ThreadTables(f, threadIndex) ==
  [NewCache EXCEPT !.m_state["descriptor_pools"] = f.m_descriptorPools[threadIndex],
                   !.m_state["descriptor_sets"]  = f.m_descriptorSets[threadIndex],
                   !.nextAddr = f.nextAddr]

\* The frame once the call on thread threadIndex's tables left them as c.
WithThreadTables(f, threadIndex, c) ==
  [f EXCEPT !.m_descriptorPools[threadIndex] = c.m_state["descriptor_pools"],
            !.m_descriptorSets[threadIndex]  = c.m_state["descriptor_sets"],
            !.nextAddr = c.nextAddr]

\* The lambda of CollectBindingsToUpdate on one map, whose bindings are
\* visited in ascending order from binding on.
RECURSIVE AggregateBindingToUpdate(_, _, _, _)
AggregateBindingToUpdate(bindingsToUpdate, descriptorSetLayout, infosMap, binding) ==
  LET rest == {s[1] : s \in DOMAIN infosMap} \ 0..(binding - 1)
  IN IF rest = {} THEN bindingsToUpdate
     ELSE LET bindingIndex == CHOOSE b \in rest : \A x \in rest : b <= x
              flagged == GetLayoutBindingFlag(descriptorSetLayout, bindingIndex)
                           = VK_DESCRIPTOR_BINDING_UPDATE_AFTER_BIND_BIT_EXT
              found   == \E i \in 1..Len(bindingsToUpdate) : bindingsToUpdate[i] = bindingIndex
          IN AggregateBindingToUpdate(
               IF ~flagged /\ ~found THEN Append(bindingsToUpdate, bindingIndex)
               ELSE bindingsToUpdate,
               descriptorSetLayout, infosMap, bindingIndex + 1)

\* RenderFrame::CollectBindingsToUpdate
CollectBindingsToUpdate(descriptorSetLayout, bufferInfos, imageInfos) ==
  AggregateBindingToUpdate(
    AggregateBindingToUpdate(<<>>, descriptorSetLayout, bufferInfos, 0),
    descriptorSetLayout, imageInfos, 0)

\* RenderFrame::RequestDescriptorSet. The driver creates the sub-pool and
\* allocates the set.
RenderFrameRequestDescriptorSet(f, descriptorSetLayout, bufferInfos, imageInfos, updateAfterBind, threadIndex) ==
  LET c1 == RequestDescriptorPool(ThreadTables(f, threadIndex), descriptorSetLayout)
      descriptorPool == c1.ret
  IN IF f.m_descriptorManagementStrategy = "StoreInCache"
     THEN LET bindingsToUpdate ==
                IF updateAfterBind
                THEN CollectBindingsToUpdate(descriptorSetLayout, bufferInfos, imageInfos)
                ELSE <<>>
              c2 == RequestDescriptorSetIn(c1, descriptorSetLayout, descriptorPool,
                                           bufferInfos, imageInfos)
              u  == Update(c2.ret, bindingsToUpdate)
              c3 == [c2 EXCEPT !.m_state["descriptor_sets"][c2.ret.id] = u.set]
          IN [WithThreadTables(f, threadIndex, c3) EXCEPT
                !.handle = u.set.m_handle, !.calls = u.calls]
     ELSE LET k == ConstructDescriptorSet(c1, descriptorSetLayout, descriptorPool.id,
                                          bufferInfos, imageInfos)
              c2 == [k.cache EXCEPT !.nextAddr = @ + 1]
          IN [WithThreadTables(f, threadIndex, c2) EXCEPT
                !.handle = k.built.m_handle, !.calls = ApplyWrites(k.built)]

\* Update() on every set of a table, in the order of the given keys. The
\* result is [sets, calls].
RECURSIVE UpdateEach(_, _, _)
UpdateEach(sets, keys, calls) ==
  IF keys = <<>> THEN [sets |-> sets, calls |-> calls]
  ELSE LET u == Update(sets[Head(keys)], <<>>)
       IN UpdateEach([sets EXCEPT ![Head(keys)] = u.set], Tail(keys), calls \o u.calls)

\* An UpdateDescriptorSets that goes through the sets of every thread.
UpdateDescriptorSetsOfEveryThread(f, threadIndex) ==
  LET each == [t \in ThreadIndices |->
                 UpdateEach(f.m_descriptorSets[t], KeySeq(DOMAIN f.m_descriptorSets[t]), <<>>)]
  IN [f EXCEPT !.m_descriptorSets = [t \in ThreadIndices |-> each[t].sets],
               !.calls = each[threadIndex].calls]

\* RenderFrame::UpdateDescriptorSets
RenderFrameUpdateDescriptorSets(f, threadIndex) ==
  LET threadDescriptorSets == f.m_descriptorSets[threadIndex]
      u == UpdateEach(threadDescriptorSets, KeySeq(DOMAIN threadDescriptorSets), <<>>)
  IN [f EXCEPT !.m_descriptorSets[threadIndex] = u.sets, !.calls = u.calls]

\* A ClearDescriptors that drops the sets and leaves the pools as they are.
ClearDescriptorsKeepingPools(f) ==
  [f EXCEPT !.m_descriptorSets = [t \in ThreadIndices |-> EmptyMap],
            !.calls = <<>>]

\* RenderFrame::ClearDescriptors
ClearDescriptors(f) ==
  [f EXCEPT !.m_descriptorSets  = [t \in ThreadIndices |-> EmptyMap],
            !.m_descriptorPools =
               [t \in ThreadIndices |->
                  [k \in DOMAIN f.m_descriptorPools[t] |->
                     DescriptorPoolReset(f.m_descriptorPools[t][k])]],
            !.calls = <<>>]

\* RenderFrame::Reset, as far as the descriptors go.
RenderFrameReset(f) ==
  IF f.m_descriptorManagementStrategy = "CreateDirectly" THEN ClearDescriptors(f)
  ELSE [f EXCEPT !.calls = <<>>]

\* RenderFrame::SetDescriptorManagementStrategy
SetDescriptorManagementStrategy(f, newStrategy) ==
  [f EXCEPT !.m_descriptorManagementStrategy = newStrategy, !.calls = <<>>]

\* --- the inputs

\* An image sampler in update-after-bind mode.
ImageSamplerUpdateAfterBind == [ImageSampler EXCEPT !.mode = "UpdateAfterBind"]

\* Two layouts of the application's resource cache: one whose bindings are
\* all static, one whose image binding is update-after-bind.
FrameLayouts ==
  {DescriptorSetLayoutCtor(0, <<UniformBuffer, ImageSampler>>, TRUE).layout
     @@ [addr |-> 101, id |-> <<101>>],
   DescriptorSetLayoutCtor(0, <<UniformBuffer, ImageSamplerUpdateAfterBind>>, TRUE).layout
     @@ [addr |-> 102, id |-> <<102>>]}

\* A uniform buffer at binding 0, or no buffer.
FrameBufferMaps ==
  {EmptyMap, [s \in {<<0, 0>>} |-> [buffer |-> 1, offset |-> 0, range |-> 1]]}

\* One image at binding 1.
FrameImageMaps == {[s \in {<<1, 0>>} |-> [imageView |-> 1]]}

\* --- the state: the frame, with its last call in frame.last

InitFrame ==
  /\ cache = NewCache
  /\ warm = NewCache
  /\ evicted = {}
  /\ last = [op |-> "none"]
  /\ upd = NoUpdate
  /\ mutex = [m \in Mutexes |-> 0]
  /\ pc = [t \in Threads |-> "idle"]
  /\ req = [t \in Threads |-> NoRequest]
  /\ got = [t \in Threads |-> NoObject]
  /\ dset = Unused
  /\ dpool = Unused
  /\ dlayout = Unused
  /\ frame = NewFrame
  /\ recorder = Unused

\* The call named name with arguments args took the frame to f.
FrameCalled(f, name, args) ==
  /\ frame' = [f EXCEPT !.last = [name |-> name, args |-> args,
                                  before |-> [frame EXCEPT !.last = [name |-> "none"]]]]
  /\ UNCHANGED <<cacheVars, dset, dpool, dlayout, recorder>>

CallFrameRequestDescriptorSet ==
  \E descriptorSetLayout \in FrameLayouts, bufferInfos \in FrameBufferMaps,
     imageInfos \in FrameImageMaps, updateAfterBind \in BOOLEAN,
     threadIndex \in ThreadIndices :
    LET f == RenderFrameRequestDescriptorSet(frame, descriptorSetLayout, bufferInfos,
                                             imageInfos, updateAfterBind, threadIndex)
    IN /\ f.nextAddr <= MaxFrameBuilds + 1
       /\ FrameCalled(f, "RequestDescriptorSet",
                      [descriptorSetLayout |-> descriptorSetLayout,
                       bufferInfos |-> bufferInfos, imageInfos |-> imageInfos,
                       updateAfterBind |-> updateAfterBind, threadIndex |-> threadIndex])

CallFrameUpdateDescriptorSets ==
  \E threadIndex \in ThreadIndices :
    FrameCalled(RenderFrameUpdateDescriptorSets(frame, threadIndex),
                "UpdateDescriptorSets", [threadIndex |-> threadIndex])

CallClearDescriptors ==
  FrameCalled(ClearDescriptors(frame), "ClearDescriptors", [threadIndex |-> -1])

CallFrameReset ==
  FrameCalled(RenderFrameReset(frame), "Reset", [threadIndex |-> -1])

CallSetDescriptorManagementStrategy ==
  \E newStrategy \in {"StoreInCache", "CreateDirectly"} :
    FrameCalled(SetDescriptorManagementStrategy(frame, newStrategy),
                "SetDescriptorManagementStrategy", [threadIndex |-> -1])

NextFrame ==
  \/ CallFrameRequestDescriptorSet
  \/ CallFrameUpdateDescriptorSets
  \/ CallClearDescriptors
  \/ CallFrameReset
  \/ CallSetDescriptorManagementStrategy

SpecFrame == InitFrame /\ [][NextFrame]_vars

\* ------------------------------------------- a resource record on its own

\* The recorder is called MaxRecorderCalls times at most.
MaxRecorderCalls == 4

\* The objects handed to the recorder: addresses 1..NumObjects.
NumObjects == 2

RecorderObjects == {[addr |-> a, id |-> <<a>>] : a \in 1..NumObjects}

\* The number of entries of a kind in a log.
EntriesOf(stream, type) == Cardinality({i \in 1..Len(stream) : stream[i].type = type})

\* The state: the recorder, the number of its calls, per kind the number of
\* Register calls that returned, and its last call.
UnitRecorder(r, calls, returned, lastCall) ==
  [op |-> "ResourceRecord", rec |-> r, calls |-> calls, returned |-> returned,
   last |-> lastCall]

InitUnitRecorder ==
  /\ cache = NewCache
  /\ warm = NewCache
  /\ evicted = {}
  /\ last = [op |-> "none"]
  /\ upd = NoUpdate
  /\ mutex = [m \in Mutexes |-> 0]
  /\ pc = [t \in Threads |-> "idle"]
  /\ req = [t \in Threads |-> NoRequest]
  /\ got = [t \in Threads |-> NoObject]
  /\ dset = Unused
  /\ dpool = Unused
  /\ dlayout = Unused
  /\ frame = Unused
  /\ recorder = UnitRecorder(EmptyRecorder, 0, [t \in ResourceType |-> 0],
                             [name |-> "ResourceRecord"])

\* A Register call of the given kind gave g = [rec, index, ok]; it threw
\* when ok is FALSE.
Registered(type, g) ==
  /\ recorder.calls < MaxRecorderCalls
  /\ recorder' = UnitRecorder(g.rec, recorder.calls + 1,
                   [recorder.returned EXCEPT ![type] = IF g.ok THEN @ + 1 ELSE @],
                   [name |-> "Register", type |-> type, ok |-> g.ok, index |-> g.index,
                    before |-> recorder.rec, returnedBefore |-> recorder.returned[type]])
  /\ UNCHANGED <<cacheVars, dset, dpool, dlayout, frame>>

\* A call that is no Register call took the recorder to r.
RecorderCalled(name, r) ==
  /\ recorder.calls < MaxRecorderCalls
  /\ recorder' = UnitRecorder(r, recorder.calls + 1, recorder.returned, [name |-> name])
  /\ UNCHANGED <<cacheVars, dset, dpool, dlayout, frame>>

CallRegisterShaderModule ==
  \E source \in Sources :
    Registered("ShaderModule", RegisterShaderModule(recorder.rec, 1, source, "main", DefaultVariant))

CallRegisterPipelineLayout ==
  \E shaderModules \in {<<>>} \cup {<<m>> : m \in RecorderObjects} :
    Registered("PipelineLayout", RegisterPipelineLayout(recorder.rec, shaderModules))

CallRegisterRenderPass ==
  Registered("RenderPass", RegisterRenderPass(recorder.rec, <<1>>, <<1>>, <<>>))

CallRegisterGraphicsPipeline ==
  \E pipelineLayout \in RecorderObjects, renderPass \in RecorderObjects :
    Registered("GraphicsPipeline",
               RegisterGraphicsPipeline(recorder.rec, VK_NULL_HANDLE,
                 [pipeline_layout |-> pipelineLayout, render_pass |-> renderPass,
                  subpass_index |-> 0, state |-> 0]))

\* SetX(index, object) after a RegisterX that returned index, as the
\* recording helper calls it.
CallSet ==
  /\ recorder.last.name = "Register"
  /\ recorder.last.ok
  /\ \E object \in RecorderObjects :
       LET index == recorder.last.index
           type  == recorder.last.type
       IN RecorderCalled("Set",
            CASE type = "ShaderModule"     -> SetShaderModule(recorder.rec, index, object)
              [] type = "PipelineLayout"   -> SetPipelineLayout(recorder.rec, index, object)
              [] type = "RenderPass"       -> SetRenderPass(recorder.rec, index, object)
              [] type = "GraphicsPipeline" -> SetGraphicsPipeline(recorder.rec, index, object))

\* SetData with a log another recorder gave: empty, or one render pass.
CallSetData ==
  \E data \in {<<>>, GetData(RegisterRenderPass(EmptyRecorder, <<1>>, <<1>>, <<>>).rec)} :
    RecorderCalled("SetData", SetData(recorder.rec, data))

NextUnitRecorder ==
  \/ CallRegisterShaderModule
  \/ CallRegisterPipelineLayout
  \/ CallRegisterRenderPass
  \/ CallRegisterGraphicsPipeline
  \/ CallSet
  \/ CallSetData

SpecUnitRecorder == InitUnitRecorder /\ [][NextUnitRecorder]_vars

\* ------------------------------------------------------------- the claims

\* Thread t1 holds the mutex thread t2 waits for.
Blocks(t1, t2) ==
  /\ t1 # t2
  /\ pc[t2] = "lock"
  /\ pc[t1] \in {"find", "build"}
  /\ mutex[MutexOf(req[t2].kind)] = t1

\* C1: when threads call RequestResource concurrently with equal parameters
\* for a kind, the constructor runs once for the key and every thread gets
\* the same object.
C1_BuiltOnceSharedByAll ==
  /\ \A x \in DOMAIN cache.builds : cache.builds[x] = 1
  /\ \A t1, t2 \in Threads :
       (/\ pc[t1] = "idle" /\ pc[t2] = "idle"
        /\ req[t1].kind # "none" /\ req[t2].kind = req[t1].kind
        /\ req[t1].key = req[t2].key)
       => /\ got[t1].addr > 0
          /\ got[t1].addr = got[t2].addr
          /\ got[t1] = cache.m_state[req[t1].kind][req[t1].key]

\* Two threads are inside RequestResource with equal parameters: one
\* constructs the object, the other waits for the mutex.
C1_Witness ==
  \E t1, t2 \in Threads :
    /\ Blocks(t1, t2)
    /\ pc[t1] = "build"
    /\ req[t1].kind = req[t2].kind
    /\ req[t1].key = req[t2].key

\* C3 as stated: each of the nine kinds has a mutex of its own, so a thread
\* waits only for a thread that works on the same kind.
C3_EveryKindItsOwnMutex ==
  \A t1, t2 \in Threads : Blocks(t1, t2) => req[t1].kind = req[t2].kind

\* C3: the cache has eight mutexes. Descriptor pools and descriptor sets
\* share m_descriptorSetMutex; every other kind has a mutex of its own, so
\* a thread waits for a thread on another kind only between those two.
C3_OnlyPoolsAndSetsShare ==
  /\ {MutexOf(k) : k \in Kinds} = Mutexes
  /\ Cardinality(Mutexes) = 8
  /\ \A k1, k2 \in Kinds :
       MutexOf(k1) = MutexOf(k2) =>
         k1 = k2 \/ {k1, k2} = {"descriptor_pools", "descriptor_sets"}
  /\ \A t1, t2 \in Threads :
       Blocks(t1, t2) =>
         \/ req[t1].kind = req[t2].kind
         \/ {req[t1].kind, req[t2].kind} = {"descriptor_pools", "descriptor_sets"}

\* A thread asking for a descriptor pool waits for a thread that holds the
\* mutex for a descriptor set.
C3_Witness ==
  \E t1, t2 \in Threads :
    /\ Blocks(t1, t2)
    /\ req[t1].kind = "descriptor_sets"
    /\ req[t2].kind = "descriptor_pools"

\* The kinds the recorder has a tag for (ResourceType), as map names.
RecordedKinds == {"shader_modules", "pipeline_layouts", "render_passes", "graphics_pipelines"}

RequestOps ==
  {"RequestShaderModule", "RequestPipelineLayout", "RequestDescriptorSetLayout",
   "RequestRenderPass", "RequestGraphicsPipeline", "RequestComputePipeline",
   "RequestDescriptorSet", "RequestFramebuffer"}

RECURSIVE SumOver(_, _)
SumOver(f, S) ==
  IF S = {} THEN 0
  ELSE LET x == CHOOSE y \in S : TRUE IN f[x] + SumOver(f, S \ {x})

\* The number of objects of the given kinds cache c constructed.
Constructed(c, kinds) == SumOver(c.builds, {x \in DOMAIN c.builds : x[1] \in kinds})

\* C2 as stated: across any sequence of public operations no key is built
\* a second time.
C2_BuiltOncePerKey ==
  \A x \in DOMAIN cache.builds : cache.builds[x] <= 1

\* C2: a request constructs an object only for a key that is absent from
\* its map, and a key is constructed again only after Clear, ClearPipelines
\* or ClearFramebuffers emptied its map or UpdateDescriptorSets moved the
\* descriptor set to another key; descriptor pools, which no operation
\* removes, and the objects of a warmed-up cache are constructed once.
C2_RebuiltOnlyAfterEviction ==
  [][/\ \A x \in BuiltBy(cache, cache') :
          /\ cache'.builds[x] = BuildCount(cache, x[1], x[2]) + 1
          /\ x[2] \notin DOMAIN cache.m_state[x[1]]
          /\ BuildCount(cache, x[1], x[2]) > 0 => x \in evicted
          /\ x[1] = "descriptor_pools" => BuildCount(cache, x[1], x[2]) = 0
     /\ \A x \in DOMAIN warm'.builds : warm'.builds[x] = 1]_vars

\* A key was constructed, removed and constructed again.
C2_Witness ==
  \E x \in DOMAIN cache.builds :
    /\ cache.builds[x] = 2
    /\ x[2] \in DOMAIN cache.m_state[x[1]]
    /\ x \notin evicted

LiveRequestsOnly ==
  /\ \A x \in DOMAIN cache.builds :
       cache.builds[x] = 1 /\ x[2] \in DOMAIN cache.m_state[x[1]]
  /\ \A k \in {"graphics_pipelines", "compute_pipelines"} :
       \A o \in Cached(cache, k) : o.pipelineCache = VK_NULL_HANDLE

C10_ClearEmptiesEveryMap ==
  last.op = "Clear" => \A k \in Kinds : cache.m_state[k] = EmptyMap

\* The descriptor sets the cache holds now.
Sets == cache.m_state["descriptor_sets"]

\* The view an element that referenced view references once the first n
\* pairs of (oldViews, newViews) were applied to it one after the other.
RECURSIVE ViewAfter(_, _, _, _)
ViewAfter(view, oldViews, newViews, n) ==
  IF n = 0 THEN view
  ELSE LET v == ViewAfter(view, oldViews, newViews, n - 1)
       IN IF v = oldViews[n] THEN newViews[n] ELSE v

\* The element was rewritten by one of the pairs.
Rewritten(view, oldViews, newViews) ==
  \E i \in 1..Len(oldViews) : ViewAfter(view, oldViews, newViews, i - 1) = oldViews[i]

\* The keys, before the last update, of the sets it rewrote.
RewrittenSets ==
  {k \in DOMAIN last.before :
     \E slot \in DOMAIN last.before[k].m_imageInfos :
       Rewritten(last.before[k].m_imageInfos[slot].imageView, last.oldViews, last.newViews)}

\* The key RequestDescriptorSet computes for the contents of a cached set.
RequestKey(set) ==
  DescriptorSetKey(set.m_descriptorSetLayout,
                   cache.m_state["descriptor_pools"][set.m_descriptorPool],
                   set.m_bufferInfos, set.m_imageInfos)

\* C6 as stated: a set UpdateDescriptorSets rewrote is stored afterwards
\* under the key RequestDescriptorSet computes for its layout, its buffer
\* bindings and its rewritten image bindings, so that a request with those
\* contents returns it.
C6_RekeyedToRequestKey ==
  last.op = "UpdateDescriptorSets" =>
    \A k \in RewrittenSets :
      \E k2 \in DOMAIN Sets :
        /\ Sets[k2].addr = last.before[k].addr
        /\ k2 = RequestKey(Sets[k2])

\* C7 as stated: after UpdateDescriptorSets(oldViews, newViews) every image
\* element of every cached set that referenced oldViews[i] references
\* newViews[i], and every other element is unchanged.
C7_EveryOldViewReplaced ==
  last.op = "UpdateDescriptorSets" =>
    \A k \in DOMAIN last.before : \A k2 \in DOMAIN Sets :
      Sets[k2].addr = last.before[k].addr =>
        \A slot \in DOMAIN last.before[k].m_imageInfos :
          LET v == last.before[k].m_imageInfos[slot].imageView
              w == Sets[k2].m_imageInfos[slot].imageView
              I == {i \in 1..Len(last.oldViews) : last.oldViews[i] = v}
          IN IF I = {} THEN w = v ELSE \E i \in I : w = last.newViews[i]

\* The <<set handle, <<binding, array element>>>> of the elements the last
\* update rewrote; with inLayout, of those whose binding the set's layout has.
RewrittenElements(inLayout) ==
  UNION {{<<last.before[k].m_handle, slot>> :
            slot \in {sl \in DOMAIN last.before[k].m_imageInfos :
                        /\ Rewritten(last.before[k].m_imageInfos[sl].imageView,
                                     last.oldViews, last.newViews)
                        /\ inLayout =>
                             GetLayoutBinding(last.before[k].m_descriptorSetLayout, sl[1])
                               # nullptr}} :
         k \in DOMAIN last.before}

\* The elements a batch of the device call writes.
BatchElements(batch) ==
  {<<batch[i].dstSet, <<batch[i].dstBinding, batch[i].dstArrayElement>>>> : i \in DOMAIN batch}

\* Every entry of the batch carries the view its element references after
\* the update.
BatchViews(batch) ==
  \A i \in DOMAIN batch : \E k \in DOMAIN last.before :
    /\ last.before[k].m_handle = batch[i].dstSet
    /\ batch[i].imageView =
         ViewAfter(last.before[k].m_imageInfos[<<batch[i].dstBinding,
                                                 batch[i].dstArrayElement>>].imageView,
                   last.oldViews, last.newViews, Len(last.oldViews))

\* C8 as stated: one batched device call that covers every rewritten
\* element when an element was rewritten, and no device call when no cached
\* set references any of oldViews.
C8_OneCallForEveryRewrite ==
  last.op = "UpdateDescriptorSets" =>
    IF RewrittenElements(FALSE) = {} THEN last.calls = <<>>
    ELSE /\ Len(last.calls) = 1
         /\ BatchElements(last.calls[1]) = RewrittenElements(FALSE)

\* C8: UpdateDescriptorSets makes one batched device call that covers every
\* rewritten element whose binding the layout of its set has, with the new
\* view, and makes no device call when there is no such element.
C8_OneCallForRewritesInLayout ==
  last.op = "UpdateDescriptorSets" =>
    IF RewrittenElements(TRUE) = {} THEN last.calls = <<>>
    ELSE /\ Len(last.calls) = 1
         /\ BatchElements(last.calls[1]) = RewrittenElements(TRUE)
         /\ BatchViews(last.calls[1])

\* An update made its device call for some of the elements it rewrote and
\* left out another, whose binding the layout lacks.
C8_Witness ==
  /\ last.op = "UpdateDescriptorSets"
  /\ Len(last.calls) = 1
  /\ RewrittenElements(TRUE) # RewrittenElements(FALSE)
  /\ Cardinality(RewrittenElements(TRUE)) >= 2

\* C9 as stated: between the first loop of UpdateDescriptorSets and its
\* return no thread takes a step of request_resource on the descriptor sets.
C9_UpdateExclusive ==
  [][(upd.pc = "rekey" /\ upd'.pc = "rekey") =>
       \A t \in Threads :
         (pc[t] \in {"find", "build"} /\ req[t].kind = "descriptor_sets") => pc'[t] = pc[t]]_vars

\* ------------------------------------------------------------------ C11

BulkClears == {"Clear", "ClearPipelines", "ClearFramebuffers"}

KeysOf(c, k) == DOMAIN c.m_state[k]

Latest(n) ==
  IF Len(dset.hist) >= n THEN dset.hist[Len(dset.hist) + 1 - n] ELSE [name |-> "none"]

IsUpdateAll(op) == op.name = "Update" /\ op.bindingsToUpdate = <<>>

\* C12 as stated: when Update() was called twice in a row on a prepared
\* descriptor set, with nothing changed in between, the second call made no
\* device write.
C12_SecondUpdateWritesNothing ==
  (IsUpdateAll(Latest(1)) /\ IsUpdateAll(Latest(2))) => dset.calls = <<>>

\* C13 as stated: after an Update(), the change of the buffer bound at one
\* binding and a second Update(), the second Update() handed exactly one
\* write-descriptor entry to the device, the one of the changed binding.
C13_OneWriteForTheChangedBinding ==
  (IsUpdateAll(Latest(1)) /\ Latest(2).name = "SetBoundBuffer" /\ IsUpdateAll(Latest(3))) =>
    /\ Len(dset.calls) = 1
    /\ Len(dset.calls[1]) = 1
    /\ dset.calls[1][1].dstBinding = Latest(2).slot[1]

\* The limit Prepare applies to a buffer element of this descriptor type;
\* 0 when it applies none.
RangeLimit(descriptorType) ==
  IF IsUniformBuffer(descriptorType) THEN maxUniformBufferRange
  ELSE IF IsStorageBuffer(descriptorType) THEN maxStorageBufferRange
  ELSE 0

\* The buffer slots of the set whose binding the layout has as a uniform or
\* storage buffer.
LimitedSlots ==
  {slot \in DOMAIN dset.set.m_bufferInfos :
     LET bindingInfo == GetLayoutBinding(dset.set.m_descriptorSetLayout, slot[1])
     IN bindingInfo # nullptr /\ RangeLimit(bindingInfo.descriptorType) # 0}

Clamped(slot) ==
  dset.requested[slot].range >
    RangeLimit(GetLayoutBinding(dset.set.m_descriptorSetLayout, slot[1]).descriptorType)

\* C14: in a prepared descriptor set every buffer element of a uniform
\* buffer binding, static or dynamic, has the smaller of the requested range
\* and maxUniformBufferRange, every element of a storage buffer binding the
\* smaller of the requested range and maxStorageBufferRange, and the set
\* has one write-descriptor entry for the element, clamped or not.
C14_RangeClampedToLimit ==
  (dset.op = "DescriptorSet") =>
    \A slot \in LimitedSlots :
      LET bindingInfo == GetLayoutBinding(dset.set.m_descriptorSetLayout, slot[1])
      IN /\ dset.set.m_bufferInfos[slot].range =
              Min({dset.requested[slot].range, RangeLimit(bindingInfo.descriptorType)})
         /\ Cardinality({i \in 1..Len(dset.set.m_writeDescriptorSets) :
                           /\ dset.set.m_writeDescriptorSets[i].infoKind = "buffer"
                           /\ dset.set.m_writeDescriptorSets[i].pInfo = slot}) = 1

\* A set prepared again by Reset, with a dynamic uniform buffer whose range
\* was clamped and a dynamic storage buffer whose range was not.
C14_Witness ==
  /\ dset.op = "DescriptorSet"
  /\ Latest(1).name = "Reset"
  /\ \E a, b \in LimitedSlots :
       /\ Clamped(a) /\ ~Clamped(b)
       /\ GetLayoutBinding(dset.set.m_descriptorSetLayout, a[1]).descriptorType = "UNIFORM_BUFFER_DYNAMIC"
       /\ GetLayoutBinding(dset.set.m_descriptorSetLayout, b[1]).descriptorType = "STORAGE_BUFFER_DYNAMIC"

\* ------------------------------------------------------- C15, C16, C18

\* ceil(n / c)
CeilDiv(n, c) == (n + c - 1) \div c

\* C15: from an empty pool of per-pool capacity c >= 1, with no set freed,
\* no Reset and no failed driver call, after n successful
\* AllocateDescriptorSet calls the pool owns ceil(n / c) sub-pools.
C15_SubPoolsGrowWithAllocations ==
  (dpool.op = "DescriptorPool" /\ ~dpool.freed /\ ~dpool.failed) =>
    Len(dpool.pool.m_pools) = CeilDiv(dpool.handles, dpool.pool.m_poolMaxSets)

\* The allocation after capacity-many created the second sub-pool.
C15_Witness ==
  /\ dpool.op = "DescriptorPool" /\ ~dpool.freed /\ ~dpool.failed
  /\ dpool.pool.m_poolMaxSets = MaxPoolSize
  /\ dpool.handles = MaxPoolSize + 1
  /\ Len(dpool.pool.m_pools) = 2
  /\ dpool.hist[2].name = "AllocateDescriptorSet"
  /\ Len(dpool.hist[2].before.m_pools) = 1

\* C16 as stated: when a set of sub-pool i was freed with FreeDescriptorSet
\* and AllocateDescriptorSet was called next, the number of sub-pools did
\* not change and the set handed out is one of sub-pool i.
C16_FreedSubPoolReused ==
  (/\ dpool.op = "DescriptorPool"
   /\ dpool.hist[2].name = "AllocateDescriptorSet"
   /\ dpool.hist[1].name = "FreeDescriptorSet"
   /\ dpool.hist[1].result = VK_SUCCESS) =>
    /\ Len(dpool.pool.m_pools) = Len(dpool.hist[2].before.m_pools)
    /\ dpool.hist[2].handle # VK_NULL_HANDLE =>
         dpool.pool.m_setPoolMapping[dpool.hist[2].handle] = dpool.hist[1].index

\* C18 as stated: when vkCreateDescriptorPool failed inside
\* AllocateDescriptorSet, the call handed out no descriptor set handle and
\* no sub-pool's live count changed.
C18_FailedCreationIsTerminal ==
  (/\ dpool.op = "DescriptorPool"
   /\ dpool.hist[2].name = "AllocateDescriptorSet"
   /\ dpool.hist[2].createFailed) =>
    /\ dpool.hist[2].handle = VK_NULL_HANDLE
    /\ dpool.pool.m_poolSetsCount = dpool.hist[2].before.m_poolSetsCount

\* ------------------------------------------------------------------ C17

\* The resources of the set that get a binding, in the given mode.
BindingsInMode(resourceSet, mode) ==
  {i \in 1..Len(resourceSet) : HasBindingPoint(resourceSet[i]) /\ resourceSet[i].mode = mode}

\* C17: the construction of a descriptor set layout fails with an error and
\* produces no layout whenever one binding of the set is in update-after-bind
\* mode and a binding of the same set is in dynamic mode.
C17_DynamicWithUpdateAfterBindFails ==
  (/\ dlayout.op = "DescriptorSetLayout"
   /\ BindingsInMode(dlayout.resourceSet, "UpdateAfterBind") # {}
   /\ BindingsInMode(dlayout.resourceSet, "Dynamic") # {}) =>
    /\ dlayout.error # "none"
    /\ dlayout.object = NoLayout

\* A dynamic uniform buffer next to an update-after-bind image sampler, with
\* a driver that would have created the layout: the constructor threw.
C17_Witness ==
  /\ dlayout.op = "DescriptorSetLayout"
  /\ dlayout.driverOk
  /\ Len(dlayout.resourceSet) = 2
  /\ dlayout.resourceSet[1].type = "BufferUniform" /\ dlayout.resourceSet[1].mode = "Dynamic"
  /\ dlayout.resourceSet[2].type = "ImageSampler" /\ dlayout.resourceSet[2].mode = "UpdateAfterBind"
  /\ dlayout.error = "DynamicWithUpdateAfterBind"
  /\ dlayout.object = NoLayout

\* ------------------------------------------------------------------ C19

\* The addresses of the descriptor set layouts the cache holds.
LiveLayouts == {l.addr : l \in Cached(cache, "descriptor_set_layouts")}

\* The descriptor pool points to a layout the cache still holds.
PoolReferenceLive(p) == p.m_descriptorSetLayout \in LiveLayouts

\* The descriptor set points to a layout and to a pool the cache still holds.
SetReferencesLive(s) ==
  /\ s.m_descriptorSetLayout.addr \in LiveLayouts
  /\ s.m_descriptorPool \in DOMAIN cache.m_state["descriptor_pools"]

\* C19 as stated: in every reachable state the layout and the pool referenced
\* by a descriptor set or a descriptor pool of the cache have not been
\* destroyed, whatever requests and clears were made.
C19_ReferencedLayoutAndPoolLive ==
  /\ \A p \in Cached(cache, "descriptor_pools") : PoolReferenceLive(p)
  /\ \A s \in Cached(cache, "descriptor_sets") : SetReferencesLive(s)

\* ------------------------------------------------------------------ C20

\* The frame with the tables of every thread but threadIndex emptied.
OnlyThread(f, threadIndex) ==
  [f EXCEPT !.m_descriptorPools =
               [t \in ThreadIndices |-> IF t = threadIndex THEN @[t] ELSE EmptyMap],
            !.m_descriptorSets =
               [t \in ThreadIndices |-> IF t = threadIndex THEN @[t] ELSE EmptyMap]]

\* The last call was RequestDescriptorSet or UpdateDescriptorSets.
PerThreadCall == frame.last.name \in {"RequestDescriptorSet", "UpdateDescriptorSets"}

\* The last call, made on the frame f.
LastCallOn(f) ==
  LET a == frame.last.args
  IN IF frame.last.name = "RequestDescriptorSet"
     THEN RenderFrameRequestDescriptorSet(f, a.descriptorSetLayout, a.bufferInfos,
                                          a.imageInfos, a.updateAfterBind, a.threadIndex)
     ELSE RenderFrameUpdateDescriptorSets(f, a.threadIndex)

\* C20: RequestDescriptorSet and UpdateDescriptorSets with thread index t
\* leave the pool table and the set table of every other thread index as
\* they were, and what they do to the tables of thread t, the handle they
\* return and the writes they hand to the device are the same whatever the
\* tables of the other threads hold.
C20_OnlyTheThreadsOwnTables ==
  PerThreadCall =>
    LET t      == frame.last.args.threadIndex
        before == frame.last.before
        alone  == LastCallOn(OnlyThread(before, t))
    IN /\ \A u \in ThreadIndices \ {t} :
            /\ frame.m_descriptorPools[u] = before.m_descriptorPools[u]
            /\ frame.m_descriptorSets[u] = before.m_descriptorSets[u]
       /\ frame.m_descriptorPools[t] = alone.m_descriptorPools[t]
       /\ frame.m_descriptorSets[t] = alone.m_descriptorSets[t]
       /\ frame.handle = alone.handle
       /\ frame.calls = alone.calls

\* UpdateDescriptorSets(0) wrote a set of thread 0 while a set of thread 1
\* has a write that was not applied yet.
C20_Witness ==
  /\ frame.op = "RenderFrame"
  /\ frame.last.name = "UpdateDescriptorSets"
  /\ frame.last.args.threadIndex = 0
  /\ frame.calls # <<>>
  /\ \E k \in DOMAIN frame.m_descriptorSets[1] :
       Update(frame.m_descriptorSets[1][k], <<>>).calls # <<>>

\* ------------------------------------------------------------------ C21

\* C21 as stated: the k-th Register call of a kind that returns gives the
\* index k - 1, and that index is the number of entries of the kind the log
\* held when the call was made.
C21_RegisterReturnsNextIndex ==
  (recorder.op = "ResourceRecord" /\ recorder.last.name = "Register" /\ recorder.last.ok) =>
    /\ recorder.last.index = recorder.last.returnedBefore
    /\ recorder.last.index = EntriesOf(recorder.last.before.m_stream, recorder.last.type)

\* ------------------------------------------------------------------ C22

\* The position in a log of the entry of a kind with the given index, 0 when
\* the log has no such entry.
LogPosition(stream, type, index) ==
  LET at == {p \in 1..Len(stream) :
               /\ stream[p].type = type
               /\ EntriesOf(SubSeq(stream, 1, p - 1), type) = index}
  IN IF at = {} THEN 0 ELSE CHOOSE p \in at : TRUE

\* The positions of the entries the entry at position p depends on.
DependenciesOf(stream, p) ==
  LET e == stream[p]
  IN CASE e.type = "PipelineLayout" ->
            {LogPosition(stream, "ShaderModule", e.shaderIndices[i]) :
               i \in 1..Len(e.shaderIndices)}
       [] e.type = "GraphicsPipeline" ->
            {LogPosition(stream, "PipelineLayout", e.pipelineLayout),
             LogPosition(stream, "RenderPass", e.renderPass)}
       [] OTHER -> {}

\* The cache key of the object a log entry describes (for a graphics
\* pipeline, the hash of its pipeline state), its dependencies taken from
\* the entries its indices refer to.
RECURSIVE EntryKey(_, _)
EntryKey(stream, p) ==
  LET e == stream[p]
      dep(type, index) == [id |-> EntryKey(stream, LogPosition(stream, type, index))]
  IN CASE e.type = "ShaderModule" ->
            ShaderModuleKey([stage |-> e.stage, source |-> e.source,
                             entryPoint |-> e.entryPoint,
                             variant |-> [preamble |-> e.preamble, processes |-> e.processes]])
       [] e.type = "PipelineLayout" ->
            PipelineLayoutKey([i \in 1..Len(e.shaderIndices) |->
                                 dep("ShaderModule", e.shaderIndices[i])])
       [] e.type = "RenderPass" ->
            RenderPassKey(e.attachments, e.loadStoreInfos, e.subpasses)
       [] e.type = "GraphicsPipeline" ->
            HashPipelineState(
              [pipeline_layout |-> dep("PipelineLayout", e.pipelineLayout),
               render_pass     |-> dep("RenderPass", e.renderPass),
               subpass_index   |-> e.subpass_index,
               state           |-> e.state])

\* Every dependency of every entry of the recorder's log is an entry before it.
ForwardReferencesOnly(r) ==
  \A p \in 1..Len(GetData(r)) :
    \A d \in DependenciesOf(GetData(r), p) : d >= 1 /\ d < p

\* The pointer-to-index table of the recorder for a composite kind, and the
\* kind's tag.
CompositeKinds ==
  {[kind |-> "pipeline_layouts", type |-> "PipelineLayout"],
   [kind |-> "graphics_pipelines", type |-> "GraphicsPipeline"]}

TableOf(r, kind) ==
  IF kind = "pipeline_layouts" THEN r.m_pipelineLayoutToIndex ELSE r.m_graphicsPipelineToIndex

\* For every pipeline layout and graphics pipeline the cache holds, the
\* entry written for it names, through its indices, the objects the request
\* was given: the key rebuilt from the entry and the entries it refers to
\* is the key the object was requested with.
EntriesDenoteRequested(c) ==
  \A k \in CompositeKinds : \A o \in Cached(c, k.kind) :
    /\ o.addr \in DOMAIN TableOf(c.m_recorder, k.kind)
    /\ LET p == LogPosition(GetData(c.m_recorder), k.type, TableOf(c.m_recorder, k.kind)[o.addr])
       IN /\ p >= 1
          /\ IF k.type = "GraphicsPipeline"
             THEN hash_param(<<>>, << <<o.pipelineCache>>,
                                     EntryKey(GetData(c.m_recorder), p) >>) = o.id
             ELSE EntryKey(GetData(c.m_recorder), p) = o.id

\* C22 as stated: in the log of a cache, and of a cache that was warmed up,
\* every dependency written into an entry is the index of an entry that is
\* earlier in the log, and it denotes the object the request was given.
C22_DependenciesAreEarlierEntries ==
  /\ ForwardReferencesOnly(cache.m_recorder)
  /\ ForwardReferencesOnly(warm.m_recorder)
  /\ EntriesDenoteRequested(cache)
  /\ EntriesDenoteRequested(warm)

\* ------------------------------------------------------------------ C23

\* The latest operation of a descriptor set state d.
LatestOf(d) == d.hist[Len(d.hist)]

\* The prepared entries of the set s that Update(bindingsToUpdate) is to
\* send: their binding is in the subset and their hash is not the hash
\* applied for the binding.
EntriesToSend(s, bindingsToUpdate) ==
  {i \in 1..Len(s.m_writeDescriptorSets) :
     LET w == s.m_writeDescriptorSets[i]
     IN /\ w.dstBinding \in Range(bindingsToUpdate)
        /\ \/ w.dstBinding \notin DOMAIN s.m_updatedBindings
           \/ s.m_updatedBindings[w.dstBinding] # HashWriteDescriptorSet(s, w)}

\* The batches hold exactly the entries of s with the given indices, in one
\* call, or there is no call when there is none to send.
SentInOneCall(s, calls, indices) ==
  IF indices = {} THEN calls = <<>>
  ELSE /\ Len(calls) = 1
       /\ Len(calls[1]) = Cardinality(indices)
       /\ Range(calls[1]) = {DeviceWrite(s, s.m_writeDescriptorSets[i]) : i \in indices}

\* The hash applied for the binding in s is the same in t.
SameAppliedHash(s, t, binding) ==
  /\ binding \in DOMAIN s.m_updatedBindings <=> binding \in DOMAIN t.m_updatedBindings
  /\ binding \in DOMAIN s.m_updatedBindings =>
       s.m_updatedBindings[binding] = t.m_updatedBindings[binding]

\* The bindings the layout of the unit sets has.
UnitBindings == 0..2

\* C23 as stated: Update(subset) with a non-empty subset sends, in one
\* call, exactly the prepared entries whose binding is in the subset and
\* whose hash is not the applied hash of the binding; afterwards the
\* applied hash of the binding of each entry sent is the hash of that
\* entry, and the applied hash of every binding outside the subset is
\* unchanged.
C23_UpdateOfSubset ==
  [][(/\ dset.op = "DescriptorSet"
      /\ LatestOf(dset').name = "Update"
      /\ LatestOf(dset').bindingsToUpdate # <<>>) =>
       LET subset == LatestOf(dset').bindingsToUpdate
           sent   == EntriesToSend(dset.set, subset)
       IN /\ SentInOneCall(dset.set, dset'.calls, sent)
          /\ \A i \in sent :
               LET w == dset.set.m_writeDescriptorSets[i]
               IN /\ w.dstBinding \in DOMAIN dset'.set.m_updatedBindings
                  /\ dset'.set.m_updatedBindings[w.dstBinding] =
                       HashWriteDescriptorSet(dset.set, w)
          /\ \A binding \in UnitBindings \ Range(subset) :
               SameAppliedHash(dset.set, dset'.set, binding)]_vars

\* ------------------------------------------------------------------ C24

\* The one call that hands every prepared entry of s to the device.
EveryEntry(s) ==
  << [i \in 1..Len(s.m_writeDescriptorSets) |-> DeviceWrite(s, s.m_writeDescriptorSets[i])] >>

\* C24: ApplyWrites() hands every prepared entry to the device, whatever
\* hashes are applied, and leaves the bindings, the prepared entries and
\* the applied hashes of the set as they were; an Update() that follows
\* ApplyWrites() on a set just constructed hands every entry to the device.
C24_ApplyWritesSendsEverything ==
  [][(dset.op = "DescriptorSet") =>
       /\ LatestOf(dset').name = "ApplyWrites" =>
            /\ dset'.calls = EveryEntry(dset.set)
            /\ dset'.set = dset.set
       /\ (/\ IsUpdateAll(LatestOf(dset'))
           /\ Len(dset.hist) = 2
           /\ dset.hist[1].name = "DescriptorSet"
           /\ dset.hist[2].name = "ApplyWrites") =>
            dset'.calls = EveryEntry(dset.set)]_vars

\* Update() after ApplyWrites() on a set just constructed with two array
\* elements at one binding: both entries went to the device again.
C24_Witness ==
  /\ dset.op = "DescriptorSet"
  /\ Len(dset.hist) = 3
  /\ dset.hist[1].name = "DescriptorSet"
  /\ dset.hist[2].name = "ApplyWrites"
  /\ IsUpdateAll(dset.hist[3])
  /\ Len(dset.set.m_writeDescriptorSets) >= 3
  /\ dset.calls = EveryEntry(dset.set)

\* ------------------------------------------------------------------ C25

\* The layout of the set has the binding of the slot.
InLayout(slot) == GetLayoutBinding(dset.set.m_descriptorSetLayout, slot[1]) # nullptr

\* The number of write-descriptor entries of the set for the element at
\* slot of the buffer map or of the image map.
EntriesFor(kind, slot) ==
  Cardinality({i \in 1..Len(dset.set.m_writeDescriptorSets) :
                 /\ dset.set.m_writeDescriptorSets[i].infoKind = kind
                 /\ dset.set.m_writeDescriptorSets[i].pInfo = slot
                 /\ dset.set.m_writeDescriptorSets[i].dstBinding = slot[1]
                 /\ dset.set.m_writeDescriptorSets[i].dstArrayElement = slot[2]})

\* C25: a prepared set has exactly one write-descriptor entry for every
\* bound array element whose binding the layout has and none for an element
\* of a binding the layout does not have, which leaves the entries of the
\* other bindings in place.
C25_OneEntryPerElementInLayout ==
  (dset.op = "DescriptorSet") =>
    /\ \A slot \in DOMAIN dset.set.m_bufferInfos :
         EntriesFor("buffer", slot) = IF InLayout(slot) THEN 1 ELSE 0
    /\ \A slot \in DOMAIN dset.set.m_imageInfos :
         EntriesFor("image", slot) = IF InLayout(slot) THEN 1 ELSE 0
    /\ Len(dset.set.m_writeDescriptorSets) =
         Cardinality({slot \in DOMAIN dset.set.m_bufferInfos : InLayout(slot)})
           + Cardinality({slot \in DOMAIN dset.set.m_imageInfos : InLayout(slot)})

\* A set just constructed whose layout has no binding 0: the buffer and the
\* image bound there have no entry, the buffer at binding 2 and the image at
\* binding 1, which come after them, have one each.
C25_Witness ==
  /\ dset.op = "DescriptorSet"
  /\ Latest(1).name = "DescriptorSet"
  /\ <<0, 0>> \in DOMAIN dset.set.m_bufferInfos /\ ~InLayout(<<0, 0>>)
  /\ <<0, 0>> \in DOMAIN dset.set.m_imageInfos
  /\ EntriesFor("buffer", <<2, 0>>) = 1
  /\ EntriesFor("image", <<1, 0>>) = 1
  /\ Len(dset.set.m_writeDescriptorSets) = 2

\* ------------------------------------------------------------------ C26

\* C26 as stated: when Reset returns, the set has no applied hash and no
\* write-descriptor entry.
C26_ResetLeavesUnprepared ==
  (dset.op = "DescriptorSet" /\ Latest(1).name = "Reset") =>
    /\ dset.set.m_updatedBindings = EmptyMap
    /\ dset.set.m_writeDescriptorSets = <<>>

\* C26, amended: when Reset returns, the set has no applied hash and is
\* prepared again: it is the set a constructor gives for the same layout,
\* pool and handle and the bindings the set now holds.
C26_ResetLeavesFreshlyPrepared ==
  (dset.op = "DescriptorSet" /\ Latest(1).name = "Reset") =>
    /\ dset.set.m_updatedBindings = EmptyMap
    /\ dset.set = DescriptorSetCtor(dset.set.m_descriptorSetLayout, dset.set.m_descriptorPool,
                                    dset.set.m_bufferInfos, dset.set.m_imageInfos,
                                    dset.set.m_handle)

\* Reset after an Update that had applied hashes: the set holds entries and
\* no applied hash.
C26_Witness ==
  /\ dset.op = "DescriptorSet"
  /\ Latest(1).name = "Reset"
  /\ IsUpdateAll(Latest(2))
  /\ dset.set.m_writeDescriptorSets # <<>>
  /\ dset.set.m_updatedBindings = EmptyMap

\* ------------------------------------------------------------------ C27

\* The sub-pool indices of the unit pool.
SubPools == 0..(Len(dpool.pool.m_pools) - 1)

\* C27 as stated: in every state of a descriptor pool the live-set counter
\* of each sub-pool is at most the per-pool capacity.
C27_CountWithinCapacity ==
  (dpool.op = "DescriptorPool") =>
    \A i \in 1..Len(dpool.pool.m_poolSetsCount) :
      dpool.pool.m_poolSetsCount[i] <= dpool.pool.m_poolMaxSets

\* ------------------------------------------------------------------ C28

\* The handles m_setPoolMapping maps to sub-pool i.
MappedTo(p, i) == {h \in DOMAIN p.m_setPoolMapping : p.m_setPoolMapping[h] = i}

\* C28: in every state of a descriptor pool the live-set counter of
\* sub-pool i is the number of handles mapped to i, and every mapped index
\* is smaller than the number of sub-pools.
C28_CountIsNumberOfMappedHandles ==
  (dpool.op = "DescriptorPool") =>
    LET p == dpool.pool
    IN /\ Len(p.m_poolSetsCount) = Len(p.m_pools)
       /\ \A i \in 0..(Len(p.m_pools) - 1) :
            p.m_poolSetsCount[i + 1] = Cardinality(MappedTo(p, i))
       /\ \A h \in DOMAIN p.m_setPoolMapping :
            p.m_setPoolMapping[h] \in 0..(Len(p.m_pools) - 1)

\* Two sub-pools with a different number of live sets each, after a free.
C28_Witness ==
  /\ dpool.op = "DescriptorPool"
  /\ dpool.freed
  /\ Len(dpool.pool.m_pools) >= 2
  /\ Cardinality(MappedTo(dpool.pool, 0)) = 1
  /\ Cardinality(MappedTo(dpool.pool, 1)) = 2

\* ------------------------------------------------------------------ C29

\* The last operation was FreeDescriptorSet.
LastFree == dpool.op = "DescriptorPool" /\ dpool.hist[2].name = "FreeDescriptorSet"

\* C29: FreeDescriptorSet(h) of a handle mapped to sub-pool i removes the
\* mapping of h alone, decrements the counter of sub-pool i alone by one,
\* sets the cursor to i and returns VK_SUCCESS; of a handle that is not
\* mapped it returns VK_INCOMPLETE and leaves the pool as it was.
C29_FreeOfMappedAndUnmapped ==
  LastFree =>
    LET c      == dpool.hist[2]
        before == c.before
        p      == dpool.pool
        h      == c.descriptorSet
    IN IF h \in DOMAIN before.m_setPoolMapping
       THEN LET i == before.m_setPoolMapping[h]
            IN /\ c.result = VK_SUCCESS
               /\ DOMAIN p.m_setPoolMapping = DOMAIN before.m_setPoolMapping \ {h}
               /\ \A g \in DOMAIN p.m_setPoolMapping :
                    p.m_setPoolMapping[g] = before.m_setPoolMapping[g]
               /\ Len(p.m_poolSetsCount) = Len(before.m_poolSetsCount)
               /\ \A j \in 1..Len(p.m_poolSetsCount) :
                    p.m_poolSetsCount[j] =
                      IF j = i + 1 THEN before.m_poolSetsCount[j] - 1
                      ELSE before.m_poolSetsCount[j]
               /\ p.m_poolIndex = i
               /\ p.m_pools = before.m_pools
       ELSE /\ c.result = VK_INCOMPLETE
            /\ p = before

\* A free of a handle of a sub-pool the cursor was not at.
C29_Witness ==
  /\ LastFree
  /\ dpool.hist[2].result = VK_SUCCESS
  /\ dpool.hist[2].before.m_poolIndex # dpool.hist[2].index
  /\ dpool.pool.m_setPoolMapping # EmptyMap

\* A free of a handle that was freed before, and one of a handle a Reset
\* dropped, both refused.
C29_RefusedWitness ==
  /\ LastFree
  /\ dpool.hist[2].result = VK_INCOMPLETE
  /\ dpool.hist[2].descriptorSet <= dpool.handles
  /\ dpool.hist[1].name \in {"Reset", "FreeDescriptorSet"}
  /\ dpool.pool.m_setPoolMapping # EmptyMap

\* ------------------------------------------------------------------ C30

\* What DescriptorPool::Reset leaves: the pool after it, given the pool before.
ResetLeaves(before, p) ==
  /\ Len(p.m_poolSetsCount) = Len(before.m_poolSetsCount)
  /\ \A j \in 1..Len(p.m_poolSetsCount) : p.m_poolSetsCount[j] = 0
  /\ p.m_setPoolMapping = EmptyMap
  /\ p.m_poolIndex = 0
  /\ p.m_pools = before.m_pools

\* The AllocateDescriptorSet call c took its set from sub-pool 0 and made
\* no sub-pool.
FromSubPoolZero(c, p) ==
  /\ Len(p.m_pools) = Len(c.before.m_pools)
  /\ p.m_poolIndex = 0
  /\ (c.handle # VK_NULL_HANDLE) =>
       /\ p.m_setPoolMapping = (c.handle :> 0)
       /\ p.m_poolSetsCount[1] = 1

\* The last operation was a Reset, or an AllocateDescriptorSet right after one.
AfterReset ==
  /\ dpool.op = "DescriptorPool"
  /\ dpool.hist[2].name = "Reset"

AllocateAfterReset ==
  /\ dpool.op = "DescriptorPool"
  /\ dpool.hist[1].name = "Reset"
  /\ dpool.hist[2].name = "AllocateDescriptorSet"

LastAllocate == dpool.op = "DescriptorPool" /\ dpool.hist[2].name = "AllocateDescriptorSet"

\* Some sub-pool of p has fewer live sets than the capacity.
SomeSubPoolHasRoom(p) ==
  \E j \in 1..Len(p.m_poolSetsCount) : p.m_poolSetsCount[j] < p.m_poolMaxSets

\* C31 as stated: an AllocateDescriptorSet on a pool in which some sub-pool
\* has a live count below the capacity does not increase the number of
\* sub-pools.
C31_NoSubPoolWhileOneHasRoom ==
  (LastAllocate /\ SomeSubPoolHasRoom(dpool.hist[2].before)) =>
    Len(dpool.pool.m_pools) = Len(dpool.hist[2].before.m_pools)

\* ------------------------------------------------------------------ C32

\* The last AllocateDescriptorSet got to vkAllocateDescriptorSets and the
\* driver rejected the allocation.
AllocationRejected ==
  /\ LastAllocate
  /\ dpool.hist[2].handle = VK_NULL_HANDLE

\* The live counts of the sub-pools p had before, as they are in q.
CountsOfOldSubPools(before, q) ==
  [j \in 1..Len(before.m_poolSetsCount) |-> q.m_poolSetsCount[j]]

\* C32: when the driver rejects the set allocation, AllocateDescriptorSet
\* returns the null handle, and the live count of every sub-pool and the
\* handle mapping are as before the call (a sub-pool created by the call
\* holds no set).
C32_RejectedAllocationChangesNoCount ==
  AllocationRejected =>
    LET before == dpool.hist[2].before
        p      == dpool.pool
    IN /\ CountsOfOldSubPools(before, p) = before.m_poolSetsCount
       /\ \A j \in (Len(before.m_poolSetsCount) + 1)..Len(p.m_poolSetsCount) :
            p.m_poolSetsCount[j] = 0
       /\ p.m_setPoolMapping = before.m_setPoolMapping

\* A rejected allocation on a pool that holds sets, which moved the cursor.
C32_Witness ==
  /\ AllocationRejected
  /\ dpool.hist[2].before.m_setPoolMapping # EmptyMap
  /\ dpool.pool.m_poolIndex # dpool.hist[2].before.m_poolIndex

\* ------------------------------------------------------------------ C33

\* A descriptor set layout was constructed and the caller holds it.
LayoutConstructed == dlayout.op = "DescriptorSetLayout" /\ dlayout.object # NoLayout

\* The resources of the set that have a binding point, in input order.
KeptResources(resourceSet) == SelectSeq(resourceSet, HasBindingPoint)

\* C33: a constructed layout has one binding descriptor per resource with a
\* binding point, in input order; its flags sequence is as long as its
\* binding sequence, and has the update-after-bind flag at position i
\* exactly when the i-th kept resource is in update-after-bind mode.
C33_OneBindingPerKeptResource ==
  LayoutConstructed =>
    LET l    == dlayout.object
        kept == KeptResources(dlayout.resourceSet)
    IN /\ Len(l.m_bindings) = Len(kept)
       /\ Len(l.m_bindingFlags) = Len(l.m_bindings)
       /\ \A i \in 1..Len(kept) :
            /\ l.m_bindings[i].binding = kept[i].binding
            /\ l.m_bindings[i].descriptorCount = kept[i].array_size
            /\ l.m_bindings[i].stageFlags = kept[i].stages
            /\ l.m_bindings[i].descriptorType =
                 FindDescriptorType(kept[i].type, kept[i].mode = "Dynamic")
            /\ (l.m_bindingFlags[i] = VK_DESCRIPTOR_BINDING_UPDATE_AFTER_BIND_BIT_EXT)
                 <=> (kept[i].mode = "UpdateAfterBind")
            /\ l.m_bindingFlags[i] \in {0, VK_DESCRIPTOR_BINDING_UPDATE_AFTER_BIND_BIT_EXT}

\* A layout of a shader input followed by a static uniform buffer and an
\* update-after-bind image sampler: the input is left out.
C33_Witness ==
  /\ LayoutConstructed
  /\ Len(dlayout.resourceSet) = MaxResources
  /\ dlayout.resourceSet[1].type = "Input"
  /\ Len(dlayout.object.m_bindings) = MaxResources - 1
  /\ \E i \in 1..Len(dlayout.resourceSet) : dlayout.resourceSet[i].mode = "UpdateAfterBind"

\* ------------------------------------------------------------------ C34

\* The lookups by binding number agree with position i of GetBindings().
LookupAgreesAt(l, i) ==
  /\ GetLayoutBinding(l, l.m_bindings[i].binding) = l.m_bindings[i]
  /\ GetLayoutBindingFlag(l, l.m_bindings[i].binding) = l.m_bindingFlags[i]

\* The lookup by the name of the i-th kept resource returns the binding
\* descriptor the lookup by its binding number returns.
NameLookupAgreesAt(l, kept, i) ==
  GetLayoutBindingByName(l, kept[i].name) = GetLayoutBinding(l, kept[i].binding)

\* C34 as stated: for every binding descriptor b at position i of
\* GetBindings(), GetLayoutBinding(b.binding) is b, GetLayoutBindingFlag(
\* b.binding) is GetBindingFlags()[i], and the lookup by the resource's name
\* returns what the lookup by its binding number returns, also when two
\* resources carry the same binding number or the same name.
C34_LookupsAgreeWithBindings ==
  LayoutConstructed =>
    LET l    == dlayout.object
        kept == KeptResources(dlayout.resourceSet)
    IN \A i \in 1..Len(l.m_bindings) :
         LookupAgreesAt(l, i) /\ NameLookupAgreesAt(l, kept, i)

\* The kept resources carry different binding numbers and different names.
DistinctBindingsAndNames(kept) ==
  \A i, j \in 1..Len(kept) :
    i # j => kept[i].binding # kept[j].binding /\ kept[i].name # kept[j].name

\* ------------------------------------------------------------------ C35

\* The construction threw for dynamic resources next to update-after-bind.
ConflictError ==
  dlayout.op = "DescriptorSetLayout" /\ dlayout.error = "DynamicWithUpdateAfterBind"

\* C35 as stated: the update-after-bind/dynamic conflict error is raised
\* only for resources that become bindings, never because of the mode of
\* a resource without a binding point.
C35_ConflictOnlyAmongBindings ==
  ConflictError =>
    /\ BindingsInMode(dlayout.resourceSet, "UpdateAfterBind") # {}
    /\ BindingsInMode(dlayout.resourceSet, "Dynamic") # {}

\* ------------------------------------------------------------------ C36

\* The last call was a RegisterPipelineLayout or RegisterGraphicsPipeline
\* that threw for an object with no recorded index.
RegisterThrew ==
  /\ recorder.op = "ResourceRecord"
  /\ recorder.last.name = "Register"
  /\ ~recorder.last.ok

\* C36 as stated: a Register call that fails for a referenced object with no
\* Set association leaves the log and the per-kind index counters as they
\* were before the call.
C36_FailedRegisterLeavesRecorder ==
  RegisterThrew =>
    /\ GetData(recorder.rec) = GetData(recorder.last.before)
    /\ recorder.rec = recorder.last.before

\* ------------------------------------------------------------------ C37

\* The last call was RequestDescriptorSet with updateAfterBind = true on a
\* frame whose strategy is StoreInCache.
RequestedUpdateAfterBind ==
  /\ frame.op = "RenderFrame"
  /\ frame.last.name = "RequestDescriptorSet"
  /\ frame.last.args.updateAfterBind
  /\ frame.last.before.m_descriptorManagementStrategy = "StoreInCache"

\* The bindings the writes handed to the device by the last call go to.
WrittenBindings ==
  UNION {{frame.calls[c][i].dstBinding : i \in 1..Len(frame.calls[c])} :
           c \in 1..Len(frame.calls)}

\* C37 as stated: with StoreInCache and updateAfterBind = true,
\* RequestDescriptorSet hands the device no write for a binding whose layout
\* flag has the update-after-bind bit, whatever the layout.
C37_NoWriteToUpdateAfterBindBinding ==
  RequestedUpdateAfterBind =>
    \A b \in WrittenBindings :
      GetLayoutBindingFlag(frame.last.args.descriptorSetLayout, b)
        # VK_DESCRIPTOR_BINDING_UPDATE_AFTER_BIND_BIT_EXT

\* Some bound binding of the last request has no update-after-bind bit.
SomeBoundBindingUnflagged ==
  \E s \in DOMAIN frame.last.args.bufferInfos \cup DOMAIN frame.last.args.imageInfos :
    GetLayoutBindingFlag(frame.last.args.descriptorSetLayout, s[1])
      # VK_DESCRIPTOR_BINDING_UPDATE_AFTER_BIND_BIT_EXT

\* ------------------------------------------------------------------ C38

\* The last call ran ClearDescriptors: it was ClearDescriptors itself, or a
\* Reset of a frame whose strategy is CreateDirectly.
DescriptorsCleared ==
  /\ frame.op = "RenderFrame"
  /\ \/ frame.last.name = "ClearDescriptors"
     \/ /\ frame.last.name = "Reset"
        /\ frame.last.before.m_descriptorManagementStrategy = "CreateDirectly"

\* The pool q is the pool p after DescriptorPool::Reset: no live set, no
\* handle mapped, the cursor at zero, the sub-pools kept.
IsResetOf(p, q) ==
  /\ \A j \in 1..Len(q.m_poolSetsCount) : q.m_poolSetsCount[j] = 0
  /\ Len(q.m_poolSetsCount) = Len(p.m_poolSetsCount)
  /\ q.m_setPoolMapping = EmptyMap
  /\ q.m_poolIndex = 0
  /\ q.m_pools = p.m_pools

\* Every descriptor set of the frame f has a handle its pool tracks.
SetsTrackedByTheirPools(f) ==
  \A t \in ThreadIndices : \A k \in DOMAIN f.m_descriptorSets[t] :
    LET s == f.m_descriptorSets[t][k]
    IN /\ s.m_descriptorPool \in DOMAIN f.m_descriptorPools[t]
       /\ s.m_handle \in DOMAIN f.m_descriptorPools[t][s.m_descriptorPool].m_setPoolMapping

\* C38: after ClearDescriptors the set table of every thread is empty, every
\* pool of every thread's pool table has all live counts zero, no handle
\* mapped and cursor zero, the pool tables keep their entries, and no set of
\* the frame has a handle its pool does not track.
C38_ClearDescriptorsResetsEveryPool ==
  DescriptorsCleared =>
    LET before == frame.last.before
    IN /\ \A t \in ThreadIndices :
            /\ frame.m_descriptorSets[t] = EmptyMap
            /\ DOMAIN frame.m_descriptorPools[t] = DOMAIN before.m_descriptorPools[t]
            /\ \A k \in DOMAIN frame.m_descriptorPools[t] :
                 IsResetOf(before.m_descriptorPools[t][k], frame.m_descriptorPools[t][k])
       /\ SetsTrackedByTheirPools(frame)

\* ClearDescriptors on a frame with a set and a pool with a live set in the
\* tables of both threads.
C38_Witness ==
  /\ DescriptorsCleared
  /\ \A t \in ThreadIndices :
       /\ frame.last.before.m_descriptorSets[t] # EmptyMap
       /\ \E k \in DOMAIN frame.last.before.m_descriptorPools[t] :
            frame.last.before.m_descriptorPools[t][k].m_setPoolMapping # EmptyMap

\* ------------------------------------------------------------------ C39

\* The number of live sets of a pool over all its sub-pools.
RECURSIVE LiveCount(_)
LiveCount(counts) == IF counts = <<>> THEN 0 ELSE Head(counts) + LiveCount(Tail(counts))

\* The keys of the cached descriptor sets allocated from the pool at key k.
CachedSetsOf(c, k) ==
  {x \in DOMAIN c.m_state["descriptor_sets"] :
     c.m_state["descriptor_sets"][x].m_descriptorPool = k}

\* C39 as stated: for every descriptor pool of the cache the sum of the live
\* counts of its sub-pools is the number of descriptor sets in the cache
\* that were allocated from it.
C39_LiveCountIsNumberOfCachedSets ==
  \A k \in DOMAIN cache.m_state["descriptor_pools"] :
    LiveCount(cache.m_state["descriptor_pools"][k].m_poolSetsCount)
      = Cardinality(CachedSetsOf(cache, k))

\* ------------------------------------------------------------------ C40

\* The index the probe from the cursor of p has to stop at: the first one
\* at or above the cursor that has no sub-pool or a sub-pool below capacity.
StopIndex(p) ==
  CHOOSE i \in p.m_poolIndex..(Len(p.m_pools) + p.m_poolIndex) :
    /\ i >= Len(p.m_pools) \/ p.m_poolSetsCount[i + 1] < p.m_poolMaxSets
    /\ \A j \in p.m_poolIndex..(i - 1) :
         j < Len(p.m_pools) /\ p.m_poolSetsCount[j + 1] >= p.m_poolMaxSets

\* The probe visited the indices from the cursor upward, one after the
\* other, each once, and none above the index it has to stop at.
VisitedUpward ==
  /\ \A k \in 1..Len(dpool.visited) : dpool.visited[k] = dpool.start.m_poolIndex + k - 1
  /\ \A k \in 1..Len(dpool.visited) : dpool.visited[k] <= StopIndex(dpool.start)

\* The probe stopped where it has to: at a sub-pool below capacity, which it
\* returns, or past the last sub-pool, where it creates a sub-pool or gives
\* up with index 0; the result is that of FindAvailablePool.
StoppedAtFirstAvailable ==
  LET p    == dpool.start
      stop == StopIndex(p)
      f    == FindAvailablePool(p, p.m_poolIndex, dpool.createOk)
  IN /\ dpool.visited[Len(dpool.visited)] = stop
     /\ IF stop < Len(p.m_pools)
        THEN dpool.index = stop /\ dpool.pool = p
        ELSE IF dpool.createOk
        THEN /\ dpool.index = stop
             /\ Len(dpool.pool.m_pools) = Len(p.m_pools) + 1
             /\ dpool.pool.m_poolSetsCount = Append(p.m_poolSetsCount, 0)
        ELSE dpool.index = 0 /\ dpool.pool = p
     /\ dpool.index = f.index
     /\ dpool.pool = f.pool

ProbeDone == dpool.op = "FindAvailablePool" /\ dpool.done

\* C40: FindAvailablePool terminates from every pool state and cursor; the
\* probe visits the indices from the cursor upward once each and stops at
\* the first sub-pool below capacity or at the first index past the last
\* sub-pool, where it creates a sub-pool or gives up.
C40_ProbeTerminates ==
  /\ [](dpool.op = "FindAvailablePool" => VisitedUpward)
  /\ [](ProbeDone => StoppedAtFirstAvailable)
  /\ <>ProbeDone

\* A probe that went over three full sub-pools and created a fourth.
C40_Witness ==
  /\ ProbeDone
  /\ Len(dpool.visited) = MaxProbePools + 1
  /\ Len(dpool.pool.m_pools) = MaxProbePools + 1
  /\ dpool.start.m_poolIndex = 0

====
